---- MODULE Spec2Model ----
(***************************************************************************)
(* Model of the aggregation engine of mcp-repo-data-tracker: the retrying  *)
(* fetch primitive (withRetry), the paginated collectors, the batched      *)
(* file-change fetcher, the contributor registry writer, the snapshot      *)
(* consolidator and the aggregate orchestrator.                            *)
(***************************************************************************)
EXTENDS Integers, Sequences, FiniteSets, TLC

(***************************************************************************)
(* Bounds of the model (not program constants).                            *)
(***************************************************************************)
MaxRetriesBound == 3
MaxPages == 2        \* pages the remote source serves to one collection
PageLen == 2         \* nodes on one page
MaxFailures == 1     \* failing requests during one collection
Now == 200           \* the clock, in days
DaysPerMonth == 30   \* days of a calendar month
MaxPRs == 6          \* merged pull requests handed to fetchHotspotData
MaxRuns == 2         \* runs of aggregate in one behaviour
MaxDays == 2         \* calendar dates on which snapshots are written
MaxIssues == 2       \* issues of each state handed to calculateIssueMetrics
MaxData == 3         \* pull requests in the raw data handed to calculateHotspots
MaxSorted == 3            \* length of the sorted lists handed to percentile
MaxValue == 4             \* largest value in those lists

(***************************************************************************)
(* Program constants.                                                      *)
(***************************************************************************)
DEFAULT_MAX_RETRIES == 5
DEFAULT_BASE_DELAY_MS == 3000
NINETY_DAYS == 90
NESTED_PAGE_SIZE == 100
BATCH_SIZE == 5
THIRTY_DAYS == 30
SIXTY_DAYS == 60
ONE_TWENTY_DAYS == 120
RETENTION_DAYS == 90

VARIABLES
  \* ---- withRetry (src/src/github/client.ts:97-122)
  wrPc,        \* "idle" | "call" | "sleep" | "returned" | "thrown"
  wrCaller,    \* who awaits this withRetry: "none" | "direct" | "pulls" | "hotspots"
  maxRetries,  \* parameter
  baseDelayMs, \* parameter
  attempt,     \* loop variable
  lastError,   \* local variable lastError (Undefined until a catch)
  fnCalls,     \* history: number of invocations of fn
  raised,      \* history: the errors fn raised, in order
  slept,       \* history: the delays slept, in order
  wrOutcome,   \* what withRetry settled with: [kind, val]
  \* ---- fetchIssuesByState (src/src/github/issues.ts:59-119) and
  \* ---- fetchPRsByState (src/unnamed/part_007:47-102)
  cPc,          \* "idle" | "request" | "retrying" | "items" | "comments" |
                \* "commentDelay" | "pageDelay" | "done" | "aborted"
  cKind,        \* "issues" | "pulls"
  stopAtCutoff, \* parameter
  hasNextPage,  \* loop variable of the page loop
  nodes,        \* nodes of the page being processed
  pageInfo,     \* pageInfo.hasNextPage of the page being processed
  idx,          \* position of the for loop in nodes
  collected,    \* the array issues / prs
  comments,     \* fetchAdditionalComments: the array comments
  cError,       \* the error the collection threw
  pagesServed,  \* history: page requests answered by the source
  cmtServed,    \* history: follow-up pages answered for the current issue
  cFailures,    \* history: failed requests of this collection
  pageRequests, \* history: page requests issued (every attempt)
  pageDelays,   \* history: inter-page delays slept
  \* ---- fetchHotspotData: batched (src/src/github/client.ts:157-246) and
  \* ---- sequential (src/unnamed/part_006:15-55, client.ts:130-148)
  hPc,        \* "idle" | "batch" | "item" | "delay" | "done" | "aborted"
  hVariant,   \* "batched" | "sequential"
  mergedPRs,  \* parameter: the pull request numbers
  hI,         \* loop variable i of processBatched / processSequential
  reqState,   \* per position: "pending" | "inflight" | "ok" | "failed"
  fetched,    \* per position: the file list the request returned
  results,    \* the array results
  processed,  \* the counter processed
  hFailures,  \* history: failed requests of the sequential variant
  hDelays,    \* history: delays slept between batches / items
  hError,     \* the error fetchHotspotData rejected with
  \* ---- aggregate, aggregateRepository (src/src/aggregator.ts:41-196),
  \* ---- calculateContributorMetrics (src/unnamed/part_001) and the writers
  \* ---- (src/src/index.ts:66-260)
  aPc,           \* position of aggregate
  dryRun,        \* args.dryRun
  runs,          \* history: runs of aggregate started; the clock of the timestamps
  repoI,         \* loop variable i of aggregate
  maintainers,   \* what fetchMaintainers returned
  issues,        \* what fetchIssues returned: the activity of the issues
  pulls,         \* what fetchPullRequests returned: the activity of the pull requests
  commits,       \* what fetchCommits returned: the activity of the commits
  existingContributors,        \* local of calculateContributorMetrics
  previousPeriodContributors,  \* local of calculateContributorMetrics
  contributorMetrics,          \* what calculateContributorMetrics returned
  existing,      \* local of updateContributors
  registryFile,  \* per repository: contributors.json
  prevFile,      \* per repository: the persisted prior-period active set
  metricsFile,   \* per repository: metrics.json
  snapshotFile,  \* per repository: the dated snapshot of the day
  maintainersFile,  \* data/maintainers.json
  repoIndexFile,    \* data/repos.json
  ucReadFailed,  \* history: updateContributors could not read the file it then wrote
  fetchesDone,   \* history: fetch stages completed in the run
  computesDone,  \* history: repositories whose metrics were computed in the run
  written,       \* history: the artifacts the run has written, with their repository
  failedAt,      \* history: the stage and repository at which the run failed
  \* ---- consolidateSnapshots (src/src/data/retention.ts:190-255)
  kPc,            \* position of consolidateSnapshots
  dailyFile,      \* per day: the daily snapshot file YYYY-MM-DD.json
  monthlyFile,    \* per month: the monthly file YYYY-MM-monthly.json
  dirFiles,       \* files: what readdir returned
  fI,             \* position of the loop over files
  monthlyGroups,  \* the Map monthlyGroups, in insertion order
  gI,             \* position of the loop over monthlyGroups
  uI,             \* position of the loop over group.files
  deleted,        \* history: the days whose daily file the run deleted
  monthlyWritten, \* history: the months whose monthly file the run wrote completely
  unreadable,     \* history: the old daily files the run failed to read
  unlinkFailed,   \* history: the days whose daily file the run failed to delete
  everDeleted,    \* history: the days whose daily file any run deleted
  recordDays      \* history: per month, the days its monthly record was computed from

VARIABLES
  \* writeSnapshot over the snapshots directories of the repositories
  sPc,           \* "idle", or "writeFile" once the date is taken
  today,         \* the calendar date new Date() gives
  sRepo,         \* the repository of the call in progress
  sMetrics,      \* its metrics argument
  sDate,         \* the date it took on entry
  snapshotsDir,  \* per repository: the files of its snapshots directory
  latest         \* history: per repository and date, the metrics last written

VARIABLES
  \* fetchMaintainers and calculateIssueMetrics in a run
  mPc,            \* "idle", "getContent", "calculateIssueMetrics", "done", "failed"
  getContentResponse,  \* history: what getContent did
  maintainerSet,  \* aggregator.ts:77: the logins of the maintainers
  issueData,      \* the open and the closed issues handed to calculateIssueMetrics
  issueMetrics    \* what calculateIssueMetrics returned

VARIABLES
  \* the calculators called on their own
  called,     \* the calculator that was called last, "none" before any call
  args,       \* its arguments
  returned    \* what it returned

retryVars == <<wrPc, wrCaller, maxRetries, baseDelayMs, attempt, lastError,
               fnCalls, raised, slept, wrOutcome>>

collVars == <<cPc, cKind, stopAtCutoff, hasNextPage, nodes, pageInfo, idx, collected,
              comments, cError, pagesServed, cmtServed, cFailures, pageRequests,
              pageDelays>>

hotVars == <<hPc, hVariant, mergedPRs, hI, reqState, fetched, results, processed,
             hFailures, hDelays, hError>>

diskVars == <<registryFile, prevFile, metricsFile, snapshotFile, maintainersFile,
              repoIndexFile>>

aggVars == <<aPc, dryRun, runs, repoI, maintainers, issues, pulls, commits,
             existingContributors, previousPeriodContributors, contributorMetrics,
             existing, diskVars, ucReadFailed, fetchesDone, computesDone, written,
             failedAt>>

snapVars == <<sPc, today, sRepo, sMetrics, sDate, snapshotsDir, latest>>

imVars == <<mPc, getContentResponse, maintainerSet, issueData, issueMetrics>>

calcVars == <<called, args, returned>>

consVars == <<kPc, dailyFile, monthlyFile, dirFiles, fI, monthlyGroups, gI, uI, deleted,
              monthlyWritten, unreadable, unlinkFailed, everDeleted, recordDays>>

vars == <<retryVars, collVars, hotVars, aggVars, consVars, snapVars, imVars, calcVars>>

nonRetryVars == <<collVars, hotVars, aggVars, consVars, snapVars, imVars, calcVars>>
nonCollVars == <<retryVars, hotVars, aggVars, consVars, snapVars, imVars, calcVars>>
nonHotVars == <<retryVars, collVars, aggVars, consVars, snapVars, imVars, calcVars>>
nonAggVars == <<retryVars, collVars, hotVars, consVars, snapVars, imVars, calcVars>>
nonConsVars == <<retryVars, collVars, hotVars, aggVars, snapVars, imVars, calcVars>>
nonImVars == <<retryVars, collVars, hotVars, aggVars, consVars, snapVars, calcVars>>
nonCalcVars == <<retryVars, collVars, hotVars, aggVars, consVars, snapVars, imVars>>
nonSnapVars == <<retryVars, collVars, hotVars, aggVars, consVars, imVars, calcVars>>
\* what a step of a collector that runs withRetry leaves alone
nonRetryCollVars == <<hotVars, aggVars, consVars, snapVars, imVars, calcVars>>
\* what a step of the file-change fetcher that runs withRetry leaves alone
nonRetryHotVars == <<collVars, aggVars, consVars, snapVars, imVars, calcVars>>

(***************************************************************************)
(* Errors.  An error carries an optional HTTP status (0 when the error has *)
(* no status property) and a message, kept as a sequence of text pieces so *)
(* that String.includes is a real contiguous-subsequence test.             *)
(***************************************************************************)
Undefined == [status |-> -1, message |-> <<>>]

Err404 == [status |-> 404, message |-> <<"Not", " ", "Found">>]
Err401 == [status |-> 401, message |-> <<"Bad", " ", "credentials">>]
Err403RateLimit ==
  [status |-> 403, message |-> <<"API", " ", "rate", " ", "limit", " ", "exceeded">>]
Err429Secondary ==
  [status |-> 429, message |-> <<"You", " ", "have", " ", "exceeded", " ", "a", " ",
                                 "secondary", " ", "rate", " ", "limit">>]
Err403Forbidden ==
  [status |-> 403, message |-> <<"Resource", " ", "not", " ", "accessible">>]
Err422DateTime ==
  [status |-> 422, message |-> <<"Validation", " ", "failed", ":", " ", "date", "time">>]
Err502 == [status |-> 502, message |-> <<"Bad", " ", "Gateway">>]
ErrSocket == [status |-> 0, message |-> <<"socket", " ", "hang", " ", "up">>]
ErrTimedOut == [status |-> 0, message |-> <<"Request", " ", "time", "d", " ", "out">>]
ErrSyntax == [status |-> 0, message |-> <<"Unexpected", " ", "token">>]

Errors == {Err404, Err401, Err403RateLimit, Err429Secondary, Err403Forbidden,
           Err422DateTime, Err502, ErrSocket, ErrTimedOut, ErrSyntax}

\* String.prototype.toLowerCase, piece by piece
toLowerCase(s) ==
  [i \in 1..Len(s) |->
     CASE s[i] = "Not" -> "not"
       [] s[i] = "Found" -> "found"
       [] s[i] = "Bad" -> "bad"
       [] s[i] = "API" -> "api"
       [] s[i] = "You" -> "you"
       [] s[i] = "Resource" -> "resource"
       [] s[i] = "Validation" -> "validation"
       [] s[i] = "Gateway" -> "gateway"
       [] s[i] = "Request" -> "request"
       [] s[i] = "Unexpected" -> "unexpected"
       [] OTHER -> s[i]]

\* String.prototype.includes
includes(s, pat) ==
  \E i \in 1..(Len(s) - Len(pat) + 1) : SubSeq(s, i, i + Len(pat) - 1) = pat

\* isRetriableError (client.ts:62-89)
isRetriableError(error) ==
  LET message == toLowerCase(error.message)
      status == error.status
  IN  IF includes(message, <<"rate", " ", "limit">>)
         \/ includes(message, <<"secondary", " ", "rate", " ", "limit">>)
         \/ status = 403
        THEN [retriable |-> TRUE, reason |-> "rate limit"]
      ELSE IF includes(message, <<"couldn't", " ", "respond">>)
              \/ includes(message, <<"time">>)
              \/ includes(message, <<"time", "out">>)
              \/ includes(message, <<"time", "d", " ", "out">>)
        THEN [retriable |-> TRUE, reason |-> "timeout"]
      ELSE IF status > 0 /\ status >= 500 /\ status < 600
        THEN [retriable |-> TRUE, reason |-> "server error"]
      ELSE IF includes(message, <<"econnreset">>) \/ includes(message, <<"enotfound">>)
              \/ includes(message, <<"socket">>) \/ includes(message, <<"network">>)
        THEN [retriable |-> TRUE, reason |-> "network error"]
      ELSE [retriable |-> FALSE, reason |-> ""]

\* a delay that grows by one base delay per attempt
pow2_linear(n) == n + 1

RECURSIVE pow2(_)
\* Math.pow(2, n)
pow2(n) == IF n <= 0 THEN 1 ELSE 2 * pow2(n - 1)

\* the test attempt === maxRetries (client.ts:111)
IsLastAttempt(a, m) == a = m

(***************************************************************************)
(* withRetry (client.ts:97-122) as a process: an entry, one step per       *)
(* settled invocation of fn, one step per elapsed sleep.                   *)
(***************************************************************************)
\* entry: lastError undefined, attempt = 0, the loop test attempt <= maxRetries
withRetry_enter(caller, m, b) ==
  /\ wrPc = "idle"
  /\ wrCaller' = caller
  /\ maxRetries' = m
  /\ baseDelayMs' = b
  /\ attempt' = 0
  /\ lastError' = Undefined
  /\ fnCalls' = 0
  /\ raised' = <<>>
  /\ slept' = <<>>
  /\ IF 0 <= m
       THEN wrPc' = "call" /\ wrOutcome' = [kind |-> "pending", val |-> Undefined]
       ELSE wrPc' = "thrown" /\ wrOutcome' = [kind |-> "error", val |-> Undefined]

\* return await fn(): fn resolved
withRetry_return(value) ==
  /\ wrPc = "call"
  /\ fnCalls' = fnCalls + 1
  /\ wrPc' = "returned"
  /\ wrOutcome' = [kind |-> "value", val |-> value]
  /\ UNCHANGED <<wrCaller, maxRetries, baseDelayMs, attempt, lastError, raised, slept>>

\* the catch block with the classification test inverted
withRetry_catch_inverted(error) ==
  /\ wrPc = "call"
  /\ fnCalls' = fnCalls + 1
  /\ raised' = Append(raised, error)
  /\ lastError' = error
  /\ IF isRetriableError(error).retriable \/ IsLastAttempt(attempt, maxRetries)
       THEN /\ wrPc' = "thrown"
            /\ wrOutcome' = [kind |-> "error", val |-> error]
            /\ slept' = slept
       ELSE /\ wrPc' = "sleep"
            /\ wrOutcome' = wrOutcome
            /\ slept' = Append(slept, baseDelayMs * pow2(attempt))
  /\ UNCHANGED <<wrCaller, maxRetries, baseDelayMs, attempt>>

\* catch (error): fn rejected with error
withRetry_catch(error) ==
  /\ wrPc = "call"
  /\ fnCalls' = fnCalls + 1
  /\ raised' = Append(raised, error)
  /\ lastError' = error
  /\ IF ~isRetriableError(error).retriable \/ IsLastAttempt(attempt, maxRetries)
       THEN /\ wrPc' = "thrown"
            /\ wrOutcome' = [kind |-> "error", val |-> error]
            /\ slept' = slept
       ELSE /\ wrPc' = "sleep"
            /\ wrOutcome' = wrOutcome
            /\ slept' = Append(slept, baseDelayMs * pow2(attempt))
  /\ UNCHANGED <<wrCaller, maxRetries, baseDelayMs, attempt>>

\* the sleep elapsed: attempt++, the loop test, the next invocation
withRetry_wake ==
  /\ wrPc = "sleep"
  /\ attempt' = attempt + 1
  /\ IF attempt + 1 <= maxRetries
       THEN wrPc' = "call" /\ wrOutcome' = wrOutcome
       ELSE wrPc' = "thrown" /\ wrOutcome' = [kind |-> "error", val |-> lastError]
  /\ UNCHANGED <<wrCaller, maxRetries, baseDelayMs, lastError, fnCalls, raised, slept>>

withRetry_settled == wrPc \in {"returned", "thrown"}

InitRetry ==
  /\ wrPc = "idle"
  /\ wrCaller = "none"
  /\ maxRetries = 0
  /\ baseDelayMs = 0
  /\ attempt = 0
  /\ lastError = Undefined
  /\ fnCalls = 0
  /\ raised = <<>>
  /\ slept = <<>>
  /\ wrOutcome = [kind |-> "pending", val |-> Undefined]

(***************************************************************************)
(* The paginated collectors.  An item carries its updatedAt (in days) and  *)
(* its nested comment connection: totalCount, pageInfo.hasNextPage and the *)
(* pages of comment nodes held in memory (page 0 is the first 100).        *)
(***************************************************************************)
cutoffDate == Now - NINETY_DAYS

SmallComments == [totalCount |-> 3, hasNextPage |-> FALSE, nodes |-> <<0>>]
BigComments == [totalCount |-> 250, hasNextPage |-> TRUE, nodes |-> <<0>>]

ItemStale == [updatedAt |-> cutoffDate - 1, comments |-> SmallComments]
ItemAtCutoff == [updatedAt |-> cutoffDate, comments |-> SmallComments]
ItemFresh == [updatedAt |-> cutoffDate + 1, comments |-> BigComments]

ItemSamples == {ItemStale, ItemAtCutoff, ItemFresh}

SeqsUpTo(S, n) == UNION {[1..k -> S] : k \in 0..n}

\* comments(first: 100, after: ...): the pages of 100 that hold total comments
NestedPages(total) == (total + NESTED_PAGE_SIZE - 1) \div NESTED_PAGE_SIZE

\* orderBy: {field: UPDATED_AT, direction: DESC} (part_003:8, 58)
IsNewestFirst(items) ==
  \A i \in 1..(Len(items) - 1) : items[i].updatedAt >= items[i + 1].updatedAt

\* the responses the source may give to a page request: newest first, and a full
\* page when it announces a next one
PageResponses ==
  {p \in [nodes : SeqsUpTo(ItemSamples, PageLen), hasNextPage : BOOLEAN] :
     /\ IsNewestFirst(p.nodes)
     /\ p.hasNextPage => Len(p.nodes) = PageLen}

\* a response without repository.pullRequests (part_007:70)
NullResponse == [nodes |-> <<>>, hasNextPage |-> FALSE, null |-> TRUE]
ErrQueryFailed == [status |-> 0, message |-> <<"GraphQL", " ", "query", " ", "failed">>]

\* the errors a request of a collection may fail with
CollectErrors == {Err502, Err404}

InitColl ==
  /\ cPc = "idle"
  /\ cKind = "issues"
  /\ stopAtCutoff = FALSE
  /\ hasNextPage = FALSE
  /\ nodes = <<>>
  /\ pageInfo = FALSE
  /\ idx = 0
  /\ collected = <<>>
  /\ comments = <<>>
  /\ cError = Undefined
  /\ pagesServed = 0
  /\ cmtServed = 0
  /\ cFailures = 0
  /\ pageRequests = 0
  /\ pageDelays = 0

\* entry of fetchIssuesByState / fetchPRsByState (issues.ts:67-70, part_007:55-58)
fetchByState_enter(kind, stop) ==
  /\ cPc = "idle"
  /\ cKind' = kind
  /\ stopAtCutoff' = stop
  /\ hasNextPage' = TRUE
  /\ collected' = <<>>
  /\ cPc' = "request"
  /\ UNCHANGED <<nodes, pageInfo, idx, comments, cError, pagesServed, cmtServed,
                 cFailures, pageRequests, pageDelays>>

\* the source answers a page request
ServesPage(page) ==
  /\ pagesServed < MaxPages
  /\ page.hasNextPage => pagesServed + 1 < MaxPages

\* the response of a page request is taken: pageInfo, nodes, the for loop starts
receivePage(page) ==
  /\ nodes' = page.nodes
  /\ pageInfo' = page.hasNextPage
  /\ idx' = 1
  /\ pagesServed' = pagesServed + 1
  /\ cPc' = "items"

\* issues.ts:73-81: await client.graphql(FETCH_ISSUES_QUERY, ...) resolved
issuesPage_resolves(page) ==
  /\ cPc = "request" /\ cKind = "issues"
  /\ ServesPage(page)
  /\ receivePage(page)
  /\ pageRequests' = pageRequests + 1
  /\ UNCHANGED <<cKind, stopAtCutoff, hasNextPage, collected, comments, cError,
                 cmtServed, cFailures, pageDelays>>

\* issues.ts:73: await client.graphql(...) rejected: the error leaves the function
issuesPage_rejects(error) ==
  /\ cPc = "request" /\ cKind = "issues"
  /\ cFailures < MaxFailures
  /\ cFailures' = cFailures + 1
  /\ pageRequests' = pageRequests + 1
  /\ cError' = error
  /\ cPc' = "aborted"
  /\ UNCHANGED <<cKind, stopAtCutoff, hasNextPage, nodes, pageInfo, idx, collected,
                 comments, pagesServed, cmtServed, pageDelays>>

\* part_007:61: withRetry(() => client.graphql(FETCH_PRS_QUERY, ...)) is called
pullsPage_request ==
  /\ UNCHANGED nonRetryCollVars
  /\ cPc = "request" /\ cKind = "pulls"
  /\ withRetry_enter("pulls", DEFAULT_MAX_RETRIES, DEFAULT_BASE_DELAY_MS)
  /\ cPc' = "retrying"
  /\ UNCHANGED <<cKind, stopAtCutoff, hasNextPage, nodes, pageInfo, idx, collected,
                 comments, cError, pagesServed, cmtServed, cFailures, pageRequests,
                 pageDelays>>

\* part_007:62: one attempt's client.graphql resolved
pullsPage_fnResolves(page) ==
  /\ UNCHANGED nonRetryCollVars
  /\ cPc = "retrying" /\ wrCaller = "pulls"
  /\ ServesPage(page)
  /\ withRetry_return(page)
  /\ pageRequests' = pageRequests + 1
  /\ UNCHANGED <<cPc, cKind, stopAtCutoff, hasNextPage, nodes, pageInfo, idx, collected,
                 comments, cError, pagesServed, cmtServed, cFailures, pageDelays>>

\* part_007:62: one attempt's client.graphql resolved without the connection
pullsPage_fnResolvesNull ==
  /\ UNCHANGED nonRetryCollVars
  /\ cPc = "retrying" /\ wrCaller = "pulls"
  /\ cFailures < MaxFailures
  /\ withRetry_return(NullResponse)
  /\ cFailures' = cFailures + 1
  /\ pageRequests' = pageRequests + 1
  /\ UNCHANGED <<cPc, cKind, stopAtCutoff, hasNextPage, nodes, pageInfo, idx, collected,
                 comments, cError, pagesServed, cmtServed, pageDelays>>

\* part_007:62: one attempt's client.graphql rejected
pullsPage_fnRejects(error) ==
  /\ UNCHANGED nonRetryCollVars
  /\ cPc = "retrying" /\ wrCaller = "pulls"
  /\ cFailures < MaxFailures
  /\ withRetry_catch(error)
  /\ cFailures' = cFailures + 1
  /\ pageRequests' = pageRequests + 1
  /\ UNCHANGED <<cPc, cKind, stopAtCutoff, hasNextPage, nodes, pageInfo, idx, collected,
                 comments, cError, pagesServed, cmtServed, pageDelays>>

\* the backoff sleep of withRetry elapsed
pullsPage_wake ==
  /\ UNCHANGED nonRetryCollVars
  /\ cPc = "retrying" /\ wrCaller = "pulls"
  /\ withRetry_wake
  /\ UNCHANGED collVars

\* part_007:61-75: withRetry settled and its frame is gone; its value is the
\* response, its error propagates
pullsPage_settled ==
  /\ UNCHANGED nonRetryCollVars
  /\ cPc = "retrying" /\ wrCaller = "pulls"
  /\ withRetry_settled
  /\ wrPc' = "idle"
  /\ wrCaller' = "none"
  /\ maxRetries' = 0
  /\ baseDelayMs' = 0
  /\ attempt' = 0
  /\ lastError' = Undefined
  /\ fnCalls' = 0
  /\ raised' = <<>>
  /\ slept' = <<>>
  /\ wrOutcome' = [kind |-> "pending", val |-> Undefined]
  /\ IF wrPc = "returned" /\ wrOutcome.val # NullResponse
       THEN /\ receivePage(wrOutcome.val)
            /\ cError' = cError
       ELSE /\ cPc' = "aborted"
            /\ cError' = IF wrPc = "returned" THEN ErrQueryFailed ELSE wrOutcome.val
            /\ UNCHANGED <<nodes, pageInfo, idx, pagesServed>>
  /\ UNCHANGED <<cKind, stopAtCutoff, hasNextPage, collected, comments, cmtServed,
                 cFailures, pageRequests, pageDelays>>

\* new Date(item.updatedAt) < cutoffDate (issues.ts:85, part_007:79)
IsBeforeCutoff(item) == item.updatedAt < cutoffDate

\* issues.ts:91: the nested connection needs follow-up pages
NeedsMoreComments(item) ==
  item.comments.totalCount > NESTED_PAGE_SIZE /\ item.comments.hasNextPage

\* the code after the for loop with the sleep before the test of hasNextPage
afterItems_delayFirst(hnp) ==
  /\ hasNextPage' = (hnp /\ pageInfo)
  /\ pageDelays' = pageDelays + 1
  /\ cPc' = IF hnp /\ pageInfo THEN "pageDelay" ELSE "done"

\* issues.ts:104-111 / part_007:87-94: after the for loop, with the value hnp of
\* hasNextPage the loop left
afterItems(hnp) ==
  IF hnp
    THEN /\ hasNextPage' = pageInfo
         /\ IF pageInfo
              THEN cPc' = "pageDelay" /\ pageDelays' = pageDelays + 1
              ELSE cPc' = "done" /\ pageDelays' = pageDelays
    ELSE /\ hasNextPage' = FALSE
         /\ cPc' = "done"
         /\ pageDelays' = pageDelays

\* the for loop with the stale item skipped instead of ending the collection
forItem_skipStale ==
  /\ cPc = "items"
  /\ IF idx > Len(nodes)
       THEN /\ afterItems(hasNextPage)
            /\ UNCHANGED <<idx, collected, comments, cmtServed>>
     ELSE IF stopAtCutoff /\ IsBeforeCutoff(nodes[idx])
       THEN /\ idx' = idx + 1
            /\ UNCHANGED <<cPc, hasNextPage, pageDelays, collected, comments, cmtServed>>
     ELSE IF cKind = "issues" /\ NeedsMoreComments(nodes[idx])
       THEN /\ cPc' = "comments"
            /\ comments' = <<>>
            /\ cmtServed' = 0
            /\ UNCHANGED <<idx, collected, hasNextPage, pageDelays>>
     ELSE /\ collected' = Append(collected, nodes[idx])
          /\ idx' = idx + 1
          /\ UNCHANGED <<cPc, hasNextPage, pageDelays, comments, cmtServed>>
  /\ UNCHANGED <<cKind, stopAtCutoff, nodes, pageInfo, cError, pagesServed, cFailures,
                 pageRequests>>

\* one turn of the for loop over nodes (issues.ts:83-102, part_007:77-85), and,
\* when the loop ends, the code after it up to the next await
forItem ==
  /\ cPc = "items"
  /\ IF idx > Len(nodes)
       THEN /\ afterItems(hasNextPage)
            /\ UNCHANGED <<idx, collected, comments, cmtServed>>
     ELSE IF stopAtCutoff /\ IsBeforeCutoff(nodes[idx])
       THEN /\ afterItems(FALSE)
            /\ UNCHANGED <<idx, collected, comments, cmtServed>>
     ELSE IF cKind = "issues" /\ NeedsMoreComments(nodes[idx])
       THEN /\ cPc' = "comments"
            /\ comments' = <<>>
            /\ cmtServed' = 0
            /\ UNCHANGED <<idx, collected, hasNextPage, pageDelays>>
     ELSE /\ collected' = Append(collected, nodes[idx])
          /\ idx' = idx + 1
          /\ UNCHANGED <<cPc, hasNextPage, pageDelays, comments, cmtServed>>
  /\ UNCHANGED <<cKind, stopAtCutoff, nodes, pageInfo, cError, pagesServed, cFailures,
                 pageRequests>>

\* sleep(PAGE_DELAY_MS) elapsed (issues.ts:109, part_007:92)
pageDelay_elapsed ==
  /\ cPc = "pageDelay"
  /\ cPc' = "request"
  /\ UNCHANGED <<cKind, stopAtCutoff, hasNextPage, nodes, pageInfo, idx, collected,
                 comments, cError, pagesServed, cmtServed, cFailures, pageRequests,
                 pageDelays>>

\* issues.ts:135-149 and 98-101: a follow-up comment page arrived; the source
\* reports a further page while the issue's comments are not exhausted; after the
\* last page the comments are appended to the issue and the issue is collected
commentsPage_resolves ==
  LET more == cmtServed + 2 < NestedPages(nodes[idx].comments.totalCount)
  IN  /\ cPc = "comments"
      /\ cmtServed' = cmtServed + 1
      /\ IF more
           THEN /\ comments' = Append(comments, cmtServed + 1)
                /\ cPc' = "commentDelay"
                /\ UNCHANGED <<collected, idx>>
           ELSE /\ comments' = <<>>
                /\ collected' = Append(collected,
                     [nodes[idx] EXCEPT !.comments.nodes =
                        @ \o Append(comments, cmtServed + 1)])
                /\ idx' = idx + 1
                /\ cPc' = "items"
      /\ UNCHANGED <<cKind, stopAtCutoff, hasNextPage, nodes, pageInfo, cError,
                     pagesServed, cFailures, pageRequests, pageDelays>>

\* issues.ts:135: the follow-up request rejected: the error leaves fetchIssuesByState
commentsPage_rejects(error) ==
  /\ cPc = "comments"
  /\ cFailures < MaxFailures
  /\ cFailures' = cFailures + 1
  /\ cError' = error
  /\ cPc' = "aborted"
  /\ UNCHANGED <<cKind, stopAtCutoff, hasNextPage, nodes, pageInfo, idx, collected,
                 comments, pagesServed, cmtServed, pageRequests, pageDelays>>

\* issues.ts:148: sleep(PAGE_DELAY_MS) between follow-up pages elapsed
commentDelay_elapsed ==
  /\ cPc = "commentDelay"
  /\ cPc' = "comments"
  /\ UNCHANGED <<cKind, stopAtCutoff, hasNextPage, nodes, pageInfo, idx, collected,
                 comments, cError, pagesServed, cmtServed, cFailures, pageRequests,
                 pageDelays>>

(***************************************************************************)
(* The file-change fetcher.  The batched fetchHotspotData runs its         *)
(* processor under processBatched and catches a failed request; the        *)
(* sequential one runs it under processSequential, inside withRetry, and   *)
(* catches nothing.                                                        *)
(***************************************************************************)
\* the file lists pulls.listFiles may answer with
FileLists == {<<"src/a.ts">>, <<"src/a.ts", "docs/b.md">>}

Min(a, b) == IF a < b THEN a ELSE b

\* items.slice(i, i + batchSize), as positions
batch(i, n) == (i + 1)..Min(i + BATCH_SIZE, n)

InitHot ==
  /\ hPc = "idle"
  /\ hVariant = "batched"
  /\ mergedPRs = <<>>
  /\ hI = 0
  /\ reqState = <<>>
  /\ fetched = <<>>
  /\ results = <<>>
  /\ processed = 0
  /\ hFailures = 0
  /\ hDelays = 0
  /\ hError = Undefined

\* batch.map(processor): every processor of the batch runs to its await, so every
\* request of the batch is issued (client.ts:166-169, 209-216)
startBatch(i, n, state) ==
  [k \in 1..n |-> IF k \in batch(i, n) THEN "inflight" ELSE state[k]]

\* fetchHotspotData is called (client.ts:196-209 / part_006:15-27) and the first
\* batch, or the first item, is started
fetchHotspotData_enter(variant, prs) ==
  LET n == Len(prs)
      fresh == [k \in 1..n |-> "pending"]
  IN  /\ hPc = "idle"
      /\ hVariant' = variant
      /\ mergedPRs' = prs
      /\ hI' = 0
      /\ fetched' = [k \in 1..n |-> <<>>]
      /\ results' = <<>>
      /\ processed' = 0
      /\ hFailures' = 0
      /\ hDelays' = 0
      /\ hError' = Undefined
      /\ IF n = 0
           THEN hPc' = "done" /\ reqState' = fresh /\ UNCHANGED retryVars
         ELSE IF variant = "batched"
           THEN hPc' = "batch" /\ reqState' = startBatch(0, n, fresh) /\ UNCHANGED retryVars
         ELSE /\ hPc' = "item"
              /\ reqState' = fresh
              /\ withRetry_enter("hotspots", DEFAULT_MAX_RETRIES, DEFAULT_BASE_DELAY_MS)

\* client.ts:211-233: the listFiles request of position k resolved
listFiles_resolves(k, files) ==
  /\ hPc = "batch" /\ reqState[k] = "inflight"
  /\ reqState' = [reqState EXCEPT ![k] = "ok"]
  /\ fetched' = [fetched EXCEPT ![k] = files]
  /\ processed' = processed + 1
  /\ UNCHANGED <<hPc, hVariant, mergedPRs, hI, results, hFailures, hDelays, hError>>

\* client.ts:234-241: the listFiles request of position k rejected and is caught
listFiles_rejects(k) ==
  /\ hPc = "batch" /\ reqState[k] = "inflight"
  /\ reqState' = [reqState EXCEPT ![k] = "failed"]
  /\ processed' = processed + 1
  /\ UNCHANGED <<hPc, hVariant, mergedPRs, hI, fetched, results, hFailures, hDelays,
                 hError>>

\* the record the processor returns for position k (client.ts:230-240)
recordOf(k) ==
  [prNumber |-> mergedPRs[k],
   files |-> IF reqState[k] = "ok" THEN fetched[k] ELSE <<>>]

RECURSIVE recordsOf(_, _)
\* the values of Promise.all(batch.map(processor)), in batch order
recordsOf(from, to) ==
  IF from > to THEN <<>> ELSE <<recordOf(from)>> \o recordsOf(from + 1, to)

\* processBatched with the pause taken after every batch, the last one too
processBatched_collect_alwaysDelay ==
  LET n == Len(mergedPRs)
  IN  /\ hPc = "batch"
      /\ \A k \in batch(hI, n) : reqState[k] \in {"ok", "failed"}
      /\ results' = results \o recordsOf(hI + 1, Min(hI + BATCH_SIZE, n))
      /\ hPc' = "delay"
      /\ UNCHANGED <<hVariant, mergedPRs, hI, reqState, fetched, processed, hFailures,
                     hDelays, hError>>

\* client.ts:169-175: every promise of the batch settled; results.push and, when
\* items remain, the pause between batches
processBatched_collect ==
  LET n == Len(mergedPRs)
  IN  /\ hPc = "batch"
      /\ \A k \in batch(hI, n) : reqState[k] \in {"ok", "failed"}
      /\ results' = results \o recordsOf(hI + 1, Min(hI + BATCH_SIZE, n))
      /\ hPc' = IF hI + BATCH_SIZE < n THEN "delay" ELSE "done"
      /\ UNCHANGED <<hVariant, mergedPRs, hI, reqState, fetched, processed, hFailures,
                     hDelays, hError>>

\* client.ts:174, 165-169: sleep(delayMs) elapsed; i += batchSize; the next batch
processBatched_wake ==
  LET n == Len(mergedPRs)
  IN  /\ hPc = "delay" /\ hVariant = "batched"
      /\ hDelays' = hDelays + 1
      /\ hI' = hI + BATCH_SIZE
      /\ IF hI + BATCH_SIZE < n
           THEN hPc' = "batch" /\ reqState' = startBatch(hI + BATCH_SIZE, n, reqState)
           ELSE hPc' = "done" /\ reqState' = reqState
      /\ UNCHANGED <<hVariant, mergedPRs, fetched, results, processed, hFailures, hError>>

\* part_006:28-50 under client.ts:138: one attempt's listFiles resolved
sequential_fnResolves(files) ==
  /\ hPc = "item" /\ wrCaller = "hotspots"
  /\ withRetry_return(files)
  /\ reqState' = [reqState EXCEPT ![hI + 1] = "ok"]
  /\ fetched' = [fetched EXCEPT ![hI + 1] = files]
  /\ processed' = processed + 1
  /\ UNCHANGED <<hPc, hVariant, mergedPRs, hI, results, hFailures, hDelays, hError>>

\* part_006:28 under client.ts:138: one attempt's listFiles rejected; nothing in the
\* processor catches it, so it is withRetry's to classify
sequential_fnRejects(error) ==
  /\ hPc = "item" /\ wrCaller = "hotspots"
  /\ hFailures < MaxFailures
  /\ withRetry_catch(error)
  /\ hFailures' = hFailures + 1
  /\ reqState' = [reqState EXCEPT ![hI + 1] = "failed"]
  /\ UNCHANGED <<hPc, hVariant, mergedPRs, hI, fetched, results, processed, hDelays,
                 hError>>

\* the backoff sleep of withRetry elapsed
sequential_retryWake ==
  /\ hPc = "item" /\ wrCaller = "hotspots"
  /\ withRetry_wake
  /\ UNCHANGED hotVars

\* client.ts:138-144: withRetry settled; results.push(result) and the pause between
\* items, or its error leaves processSequential and fetchHotspotData
processSequential_settled ==
  LET n == Len(mergedPRs)
  IN  /\ hPc = "item" /\ wrCaller = "hotspots"
      /\ withRetry_settled
      /\ wrPc' = "idle"
      /\ wrCaller' = "none"
      /\ maxRetries' = 0
      /\ baseDelayMs' = 0
      /\ attempt' = 0
      /\ lastError' = Undefined
      /\ fnCalls' = 0
      /\ raised' = <<>>
      /\ slept' = <<>>
      /\ wrOutcome' = [kind |-> "pending", val |-> Undefined]
      /\ IF wrPc = "returned"
           THEN /\ results' = Append(results,
                                     [prNumber |-> mergedPRs[hI + 1],
                                      files |-> wrOutcome.val])
                /\ hPc' = IF hI < n - 1 THEN "delay" ELSE "done"
                /\ hError' = hError
           ELSE /\ hPc' = "aborted"
                /\ hError' = wrOutcome.val
                /\ results' = results
      /\ UNCHANGED <<hVariant, mergedPRs, hI, reqState, fetched, processed, hFailures,
                     hDelays>>

\* client.ts:143, 137-138: sleep(delayMs) elapsed; i++; the next item under withRetry
processSequential_wake ==
  /\ hPc = "delay" /\ hVariant = "sequential"
  /\ hDelays' = hDelays + 1
  /\ hI' = hI + 1
  /\ hPc' = "item"
  /\ withRetry_enter("hotspots", DEFAULT_MAX_RETRIES, DEFAULT_BASE_DELAY_MS)
  /\ UNCHANGED <<hVariant, mergedPRs, reqState, fetched, results, processed, hFailures,
                 hError>>

(***************************************************************************)
(* Logins are strings of UTF-16 code units, so that toLowerCase, endsWith  *)
(* and the default order of Array.prototype.sort are what they are in the  *)
(* program.                                                                *)
(***************************************************************************)
LoginAl == <<65, 108>>                      \* "Al"
LoginBo == <<98, 111>>                      \* "bo"
LoginStale == <<83, 116, 97, 108, 101>>     \* "Stale"
NoLogin == <<>>                             \* author?.login of a deleted account

Logins == {LoginAl, LoginBo, LoginStale}

\* src/src/utils/bots.ts:11-29, two of its entries: "stale", "stale[bot]"
KNOWN_BOTS ==
  {<<115, 116, 97, 108, 101>>, <<115, 116, 97, 108, 101, 91, 98, 111, 116, 93>>}

BotSuffix == <<91, 98, 111, 116, 93>>       \* "[bot]"

\* String.prototype.toLowerCase on the code units A..Z
lowerCase(login) ==
  [i \in 1..Len(login) |-> IF login[i] >= 65 /\ login[i] <= 90
                             THEN login[i] + 32 ELSE login[i]]

endsWith(s, suffix) ==
  /\ Len(suffix) <= Len(s)
  /\ SubSeq(s, Len(s) - Len(suffix) + 1, Len(s)) = suffix

\* src/src/utils/bots.ts:37-41
isBot(login) ==
  IF login = NoLogin THEN TRUE
  ELSE LET lower == lowerCase(login)
       IN  lower \in KNOWN_BOTS \/ endsWith(lower, BotSuffix)

RECURSIVE lessThan(_, _)
\* the default comparison of Array.prototype.sort: code unit by code unit
lessThan(a, b) ==
  IF b = <<>> THEN FALSE
  ELSE IF a = <<>> THEN TRUE
  ELSE IF a[1] # b[1] THEN a[1] < b[1]
  ELSE lessThan(Tail(a), Tail(b))

RECURSIVE sort(_)
\* Array.from(set).sort()
sort(S) ==
  IF S = {} THEN <<>>
  ELSE LET least == CHOOSE x \in S : \A y \in S \ {x} : lessThan(x, y)
       IN  <<least>> \o sort(S \ {least})

\* new Set(array)
toSet(arr) == {arr[i] : i \in 1..Len(arr)}

(***************************************************************************)
(* The files.  A file is absent or holds a value.                          *)
(***************************************************************************)
Absent == [exists |-> FALSE, data |-> <<>>]

File(data) == [exists |-> TRUE, data |-> data]

\* config.repositories (aggregator.ts:48-66), two configured repositories
Repositories == <<[owner |-> "modelcontextprotocol", repo |-> "modelcontextprotocol"],
                  [owner |-> "modelcontextprotocol", repo |-> "typescript-sdk"]>>

\* aggregator.ts:80
RepoCount == Len(Repositories)

Repos == 1..RepoCount

\* one activity: its author and the day it was created or committed
Activity(author, day) == [author |-> author, time |-> day]

\* what fetchIssues may return: nothing, or issues created 10 days ago by a
\* contributor, by a bot and by a deleted account
IssueSamples ==
  {<<>>,
   <<Activity(LoginBo, Now - 10), Activity(LoginStale, Now - 10),
     Activity(NoLogin, Now - 10)>>}

\* what fetchPullRequests may return: a pull request created 45 days ago
PullSamples == {<<Activity(LoginAl, Now - 45)>>}

\* what fetchCommits may return: nothing, or a commit of 10 days ago
CommitSamples == {<<>>, <<Activity(LoginAl, Now - 10)>>}

\* what fetchMaintainers may return
MaintainerSamples == {{LoginAl}}

NoMetrics == [total_known |-> 0, active_30d |-> 0, first_time_30d |-> 0,
              retention_rate_pct |-> 0, churned_30d |-> 0,
              commits_per_week_avg |-> 0, commits_per_week_trend |-> <<>>,
              active_maintainers_30d |-> 0, active_community_30d |-> 0,
              allContributors |-> <<>>, previousPeriodContributors |-> <<>>]

\* the run has not failed
NoFailure == [stage |-> "none", repo |-> 0]

\* an artifact of repository r; the global files have repository 0
Artifact(name, r) == [artifact |-> name, repo |-> r]

InitAgg ==
  /\ aPc = "idle"
  /\ dryRun = FALSE
  /\ runs = 0
  /\ repoI = 0
  /\ maintainers = {}
  /\ issues = <<>>
  /\ pulls = <<>>
  /\ commits = <<>>
  /\ existingContributors = {}
  /\ previousPeriodContributors = {}
  /\ contributorMetrics = NoMetrics
  /\ existing = <<>>
  /\ registryFile = [r \in Repos |-> Absent]
  /\ prevFile = [r \in Repos |-> Absent]
  /\ metricsFile = [r \in Repos |-> Absent]
  /\ snapshotFile = [r \in Repos |-> Absent]
  /\ maintainersFile = Absent
  /\ repoIndexFile = Absent
  /\ ucReadFailed = FALSE
  /\ fetchesDone = 0
  /\ computesDone = 0
  /\ written = {}
  /\ failedAt = NoFailure

(***************************************************************************)
(* calculateContributorMetrics (src/unnamed/part_001:34-171), its          *)
(* synchronous part as operators over what was fetched.                    *)
(***************************************************************************)
\* Math.round of a quotient of naturals
roundDiv(a, b) == (2 * a + b) \div (2 * b)

\* part_001:79-97: the activities in the order they are processed
activities == issues \o pulls \o commits

\* part_001:57: the activities processContribution does not return from at once
counted == {a \in toSet(activities) : ~isBot(a.author)}

age(a) == Now - a.time

\* part_001:59
currentContributors == {a.author : a \in counted}

\* part_001:63-65
activeContributors == {a.author : a \in {c \in counted : age(c) < THIRTY_DAYS}}

\* part_001:68-70
prevWindowContributors ==
  {a.author : a \in {c \in counted : age(c) >= THIRTY_DAYS /\ age(c) < SIXTY_DAYS}}

\* part_001:73-75
recentHistoryContributors ==
  {a.author : a \in {c \in counted : age(c) >= THIRTY_DAYS /\ age(c) < ONE_TWENTY_DAYS}}

\* every active contributor taken as new
newContributors_all == activeContributors

\* part_001:102-106
newContributors == activeContributors \ recentHistoryContributors

\* the persisted prior-period set left aside
retentionBase_window == prevWindowContributors

\* part_001:111-116
retentionBase ==
  IF Cardinality(previousPeriodContributors) > 0
    THEN previousPeriodContributors ELSE prevWindowContributors

\* part_001:118-123
retained == Cardinality(retentionBase \cap activeContributors)

\* part_001:125-127: round((retained / retentionBase.size) * 100, 1), in tenths
\* of a percent
retention_rate_pct ==
  IF Cardinality(retentionBase) > 0
    THEN roundDiv(retained * 1000, Cardinality(retentionBase)) ELSE 0

RECURSIVE sum(_, _)
\* snapshots.reduce((sum, s) => sum + getter(s), 0), over the values got
sum(values, n) == IF n = 0 THEN 0 ELSE sum(values, n - 1) + values[n]

\* round(average(values)) (bots.ts:67-70, 91-94), in tenths
average(values) ==
  IF Len(values) = 0 THEN 0
  ELSE roundDiv(10 * sum(values, Len(values)), Len(values))

WEEKS == 12

\* groupCommitsByWeek (part_004:91-110), a week being 7 days: index 1 is the
\* oldest week, index weeks the most recent
groupCommitsByWeek(list, weeks) ==
  [w \in 1..weeks |->
     Cardinality({k \in 1..Len(list) :
                    LET weeksAgo == (Now - list[k].time) \div 7
                    IN  weeksAgo >= 0 /\ weeksAgo < weeks /\ weeks - weeksAgo = w})]

\* part_001:132
commitTrend == groupCommitsByWeek(commits, WEEKS)

\* part_001:136-144
allContributors ==
  {c \in existingContributors : ~isBot(c)} \cup currentContributors

\* part_001:158-170
contributorMetricsValue ==
  [total_known |-> Cardinality(allContributors),
   active_30d |-> Cardinality(activeContributors),
   first_time_30d |-> Cardinality(newContributors),
   retention_rate_pct |-> retention_rate_pct,
   churned_30d |-> Cardinality(retentionBase) - retained,
   commits_per_week_avg |-> average(commitTrend),
   commits_per_week_trend |-> commitTrend,
   active_maintainers_30d |-> Cardinality(activeContributors \cap maintainers),
   active_community_30d |-> Cardinality(activeContributors \ maintainers),
   allContributors |-> sort(allContributors),
   previousPeriodContributors |-> sort(activeContributors)]

(***************************************************************************)
(* aggregate and aggregateRepository (src/src/aggregator.ts:41-196)        *)
(***************************************************************************)
FetchStages == {"fetchMaintainers", "fetchIssues", "fetchPullRequests",
                "fetchHotspotData", "fetchRepoStats", "fetchCommits"}

WriteStages == {"writeMetrics", "updateContributors_write", "writeSnapshot",
                "writeMaintainers", "writeRepoIndex"}

\* the repository aggregate is at
repo == repoI + 1

\* aggregator.ts:41-76: aggregate is called; the configuration is loaded and
\* fetchMaintainers is awaited
aggregate_enter(dry) ==
  /\ aPc \in {"idle", "done", "failed"}
  /\ runs < MaxRuns
  /\ runs' = runs + 1
  /\ dryRun' = dry
  /\ aPc' = "fetchMaintainers"
  /\ repoI' = 0
  /\ maintainers' = {}
  /\ issues' = <<>>
  /\ pulls' = <<>>
  /\ commits' = <<>>
  /\ existingContributors' = {}
  /\ previousPeriodContributors' = {}
  /\ contributorMetrics' = NoMetrics
  /\ existing' = <<>>
  /\ ucReadFailed' = FALSE
  /\ fetchesDone' = 0
  /\ computesDone' = 0
  /\ written' = {}
  /\ failedAt' = NoFailure
  /\ UNCHANGED diskVars

\* the global files are written as soon as one repository is through
afterRepository_globalsFirst ==
  IF dryRun THEN (IF repoI + 1 < RepoCount THEN "fetchIssues" ELSE "done")
  ELSE "writeMaintainers"

\* aggregator.ts:84, 110-196 and 89-97: aggregateRepository returned; the next
\* repository, or the global files
afterRepository ==
  IF repoI + 1 < RepoCount THEN "fetchIssues"
  ELSE IF dryRun THEN "done" ELSE "writeMaintainers"

\* the locals of aggregateRepository, calculateContributorMetrics and
\* updateContributors are gone when aggregateRepository has returned or thrown;
\* maintainers, a local of aggregate, is gone when aggregate has
localsReleased ==
  /\ issues' = <<>>
  /\ pulls' = <<>>
  /\ commits' = <<>>
  /\ existingContributors' = {}
  /\ previousPeriodContributors' = {}
  /\ contributorMetrics' = NoMetrics
  /\ existing' = <<>>
  /\ ucReadFailed' = FALSE

\* a variant of fetch_rejects in which aggregateRepository catches the rejection
\* of a repository's fetch and goes on to its writes
fetch_rejects_swallowed ==
  /\ aPc \in FetchStages \ {"fetchMaintainers"}
  /\ aPc' = "writeMetrics"
  /\ failedAt' = [stage |-> aPc, repo |-> repo]
  /\ UNCHANGED <<dryRun, runs, repoI, maintainers, issues, pulls, commits,
                 existingContributors, previousPeriodContributors,
                 contributorMetrics, existing, diskVars, ucReadFailed,
                 fetchesDone, computesDone, written>>

\* a variant of writeFile_rejects in which the loop of aggregate catches the
\* failure of a repository's write and goes on with the next repository
writeFile_rejects_continue ==
  /\ aPc \in {"writeMetrics", "updateContributors_write", "writeSnapshot"}
  /\ aPc' = afterRepository
  /\ repoI' = IF repoI + 1 < RepoCount THEN repoI + 1 ELSE repoI
  /\ localsReleased
  /\ failedAt' = [stage |-> aPc, repo |-> repo]
  /\ UNCHANGED <<dryRun, runs, maintainers, diskVars, fetchesDone, computesDone,
                 written>>

\* a fetch rejected: nothing in aggregate or aggregateRepository catches it
fetch_rejects ==
  /\ aPc \in FetchStages \ {"fetchMaintainers"}
  /\ aPc' = "failed"
  /\ localsReleased
  /\ failedAt' = [stage |-> aPc, repo |-> repo]
  /\ maintainers' = {}
  /\ UNCHANGED <<dryRun, runs, repoI, diskVars, fetchesDone, computesDone,
                 written>>

\* a writeFile rejected: nothing in the writers, aggregateRepository or aggregate
\* catches it
writeFile_rejects ==
  /\ aPc \in WriteStages
  /\ aPc' = "failed"
  /\ localsReleased
  /\ failedAt' = [stage |-> aPc,
                  repo |-> IF aPc \in {"writeMaintainers", "writeRepoIndex"}
                             THEN 0 ELSE repo]
  /\ maintainers' = {}
  /\ UNCHANGED <<dryRun, runs, repoI, diskVars, fetchesDone, computesDone,
                 written>>

\* aggregator.ts:76-85
fetchMaintainers_resolves(m) ==
  /\ aPc = "fetchMaintainers"
  /\ maintainers' = m
  /\ fetchesDone' = fetchesDone + 1
  /\ aPc' = "fetchIssues"
  /\ UNCHANGED <<dryRun, runs, repoI, issues, pulls, commits, existingContributors,
                 previousPeriodContributors, contributorMetrics, existing, diskVars,
                 ucReadFailed, computesDone,
                 written, failedAt>>

\* aggregator.ts:126-128
fetchIssues_resolves(acts) ==
  /\ aPc = "fetchIssues"
  /\ issues' = acts
  /\ fetchesDone' = fetchesDone + 1
  /\ aPc' = "fetchPullRequests"
  /\ UNCHANGED <<dryRun, runs, repoI, maintainers, pulls, commits,
                 existingContributors, previousPeriodContributors, contributorMetrics,
                 existing, diskVars, ucReadFailed, computesDone,
                 written, failedAt>>

\* aggregator.ts:131-133
fetchPullRequests_resolves(acts) ==
  /\ aPc = "fetchPullRequests"
  /\ pulls' = acts
  /\ fetchesDone' = fetchesDone + 1
  /\ aPc' = "fetchHotspotData"
  /\ UNCHANGED <<dryRun, runs, repoI, maintainers, issues, commits,
                 existingContributors, previousPeriodContributors, contributorMetrics,
                 existing, diskVars, ucReadFailed, computesDone,
                 written, failedAt>>

\* aggregator.ts:136-139 and 142-144: fetchHotspotData, then fetchRepoStats
fetchStage_resolves ==
  /\ aPc \in {"fetchHotspotData", "fetchRepoStats"}
  /\ fetchesDone' = fetchesDone + 1
  /\ aPc' = IF aPc = "fetchHotspotData" THEN "fetchRepoStats" ELSE "fetchCommits"
  /\ UNCHANGED <<dryRun, runs, repoI, maintainers, issues, pulls, commits,
                 existingContributors, previousPeriodContributors, contributorMetrics,
                 existing, diskVars, ucReadFailed, computesDone,
                 written, failedAt>>

\* aggregator.ts:147-154: fetchCommits; calculateIssueMetrics, calculatePRMetrics;
\* calculateContributorMetrics runs to its first await (part_001:42)
fetchCommits_resolves(acts) ==
  /\ aPc = "fetchCommits"
  /\ commits' = acts
  /\ fetchesDone' = fetchesDone + 1
  /\ aPc' = "loadContributors"
  /\ UNCHANGED <<dryRun, runs, repoI, maintainers, issues, pulls,
                 existingContributors, previousPeriodContributors, contributorMetrics,
                 existing, diskVars, ucReadFailed, computesDone,
                 written, failedAt>>

\* index.ts:248-259 awaited at part_001:42: loadContributors, which answers []
\* when the file is absent and when reading or parsing it fails
loadContributors_settles(readOk) ==
  /\ aPc = "loadContributors"
  /\ registryFile[repo].exists \/ readOk
  /\ existingContributors' =
       IF registryFile[repo].exists /\ readOk
         THEN toSet(registryFile[repo].data.contributors) ELSE {}
  /\ aPc' = "loadPreviousPeriodContributors"
  /\ UNCHANGED <<dryRun, runs, repoI, maintainers, issues, pulls, commits,
                 previousPeriodContributors, contributorMetrics, existing, diskVars,
                 ucReadFailed, fetchesDone, computesDone,
                 written, failedAt>>

\* awaited at part_001:43: the persisted prior-period active set, empty when there
\* is no record of it
loadPreviousPeriodContributors_settles ==
  /\ aPc = "loadPreviousPeriodContributors"
  /\ previousPeriodContributors' =
       IF prevFile[repo].exists THEN toSet(prevFile[repo].data) ELSE {}
  /\ aPc' = "savePreviousPeriodContributors"
  /\ UNCHANGED <<dryRun, runs, repoI, maintainers, issues, pulls, commits,
                 existingContributors, contributorMetrics, existing, diskVars,
                 ucReadFailed, fetchesDone, computesDone,
                 written, failedAt>>

\* part_001:156-170 and aggregator.ts:154-182: this run's 30-day-active set is
\* persisted, whatever dryRun is; calculateContributorMetrics returns; in a dry
\* run aggregateRepository previews and returns
savePreviousPeriodContributors_resolves ==
  /\ aPc = "savePreviousPeriodContributors"
  /\ prevFile' = [prevFile EXCEPT ![repo] = File(sort(activeContributors))]
  /\ computesDone' = computesDone + 1
  /\ IF dryRun
       THEN /\ aPc' = afterRepository
            /\ repoI' = IF repoI + 1 < RepoCount THEN repoI + 1 ELSE repoI
            /\ localsReleased
       ELSE /\ aPc' = "writeMetrics"
            /\ repoI' = repoI
            /\ contributorMetrics' = contributorMetricsValue
            /\ UNCHANGED <<issues, pulls, commits, existingContributors,
                           previousPeriodContributors, existing, ucReadFailed>>
  /\ written' = written \cup {Artifact("previousPeriod", repo)}
  /\ maintainers' = IF aPc' \in {"done", "failed"} THEN {} ELSE maintainers
  /\ UNCHANGED <<dryRun, runs, registryFile, metricsFile, snapshotFile, maintainersFile,
                 repoIndexFile, fetchesDone,
                 failedAt>>

\* index.ts:113-118 awaited at aggregator.ts:185
writeMetrics_resolves ==
  /\ aPc = "writeMetrics"
  /\ metricsFile' = [metricsFile EXCEPT ![repo] =
                       File([timestamp |-> runs, contributors |-> contributorMetrics])]
  /\ aPc' = "updateContributors_read"
  /\ written' = written \cup {Artifact("metrics", repo)}
  /\ UNCHANGED <<dryRun, runs, repoI, maintainers, issues, pulls, commits,
                 existingContributors, previousPeriodContributors, contributorMetrics,
                 existing, registryFile, prevFile, snapshotFile, maintainersFile,
                 repoIndexFile, ucReadFailed, fetchesDone, computesDone,
                 failedAt>>

\* index.ts:133-146: the existing registry is read; any failure of readFile or
\* JSON.parse is caught and leaves existing = []
updateContributors_read(readOk) ==
  /\ aPc = "updateContributors_read"
  /\ registryFile[repo].exists \/ readOk
  /\ existing' = IF registryFile[repo].exists /\ readOk
                   THEN registryFile[repo].data.contributors ELSE <<>>
  /\ ucReadFailed' = ~readOk
  /\ aPc' = "updateContributors_write"
  /\ UNCHANGED <<dryRun, runs, repoI, maintainers, issues, pulls, commits,
                 existingContributors, previousPeriodContributors, contributorMetrics,
                 diskVars, fetchesDone, computesDone,
                 written, failedAt>>

\* index.ts:148-156: merge, dedupe, sort and write
updateContributors_write ==
  LET merged == sort(toSet(existing \o contributorMetrics.allContributors))
  IN  /\ aPc = "updateContributors_write"
      /\ registryFile' = [registryFile EXCEPT ![repo] =
                            File([lastUpdated |-> runs, contributors |-> merged])]
      /\ aPc' = "writeSnapshot"
      /\ written' = written \cup {Artifact("contributors", repo)}
      /\ UNCHANGED <<dryRun, runs, repoI, maintainers, issues, pulls, commits,
                     existingContributors, previousPeriodContributors,
                     contributorMetrics, existing, prevFile, metricsFile, snapshotFile,
                     maintainersFile, repoIndexFile, ucReadFailed,
                     fetchesDone, computesDone,
                     failedAt>>

\* index.ts:162-223 awaited at aggregator.ts:187; aggregateRepository returns
writeSnapshot_resolves ==
  /\ aPc = "writeSnapshot"
  /\ snapshotFile' = [snapshotFile EXCEPT ![repo] =
                        File([date |-> Now,
                              contributors |->
                                [total |-> contributorMetrics.total_known,
                                 active_30d |-> contributorMetrics.active_30d,
                                 first_time_30d |-> contributorMetrics.first_time_30d]])]
  /\ aPc' = afterRepository
  /\ repoI' = IF repoI + 1 < RepoCount THEN repoI + 1 ELSE repoI
  /\ localsReleased
  /\ written' = written \cup {Artifact("snapshot", repo)}
  /\ UNCHANGED <<dryRun, runs, maintainers, registryFile, prevFile, metricsFile,
                 maintainersFile, repoIndexFile, fetchesDone,
                 computesDone,
                 failedAt>>

\* index.ts:123-127 awaited at aggregator.ts:95
writeMaintainers_resolves ==
  /\ aPc = "writeMaintainers"
  /\ maintainersFile' = File(maintainers)
  /\ aPc' = "writeRepoIndex"
  /\ written' = written \cup {Artifact("maintainers", 0)}
  /\ UNCHANGED <<dryRun, runs, repoI, maintainers, issues, pulls, commits,
                 existingContributors, previousPeriodContributors, contributorMetrics,
                 existing, registryFile, prevFile, metricsFile, snapshotFile,
                 repoIndexFile, ucReadFailed, fetchesDone, computesDone,
                 failedAt>>

\* index.ts:228-243 awaited at aggregator.ts:96; aggregate returns
writeRepoIndex_resolves ==
  /\ aPc = "writeRepoIndex"
  /\ repoIndexFile' = File([lastUpdated |-> runs,
                            repositories |-> Repositories])
  /\ aPc' = "done"
  /\ written' = written \cup {Artifact("repos", 0)}
  /\ maintainers' = {}
  /\ UNCHANGED <<dryRun, runs, repoI, issues, pulls, commits,
                 existingContributors, previousPeriodContributors, contributorMetrics,
                 existing, registryFile, prevFile, metricsFile, snapshotFile,
                 maintainersFile, ucReadFailed, fetchesDone, computesDone,
                 failedAt>>

(***************************************************************************)
(* writeSnapshot (src/src/index.ts:162-223) over calendar dates.  A         *)
(* directory is the set of its files, a file a name and its content;        *)
(* writeFile replaces the content of the file of that name or creates it.   *)
(***************************************************************************)
\* the calendar dates of the behaviour
SnapDates == Now..(Now + MaxDays - 1)

\* `${date}.json`
SnapshotName(date) == <<date, "json">>

\* metrics handed to writeSnapshot: the timestamp of the run, counts of the
\* issue, repository and contributor sections
MetricsOf(t, open, stars) ==
  [timestamp |-> t,
   issues |-> [open_count |-> open],
   repository |-> [stars |-> stars],
   contributors |-> [total_known |-> 4, active_30d |-> 2, first_time_30d |-> 1]]

MetricsSamples == {MetricsOf(1, 3, 7), MetricsOf(2, 3, 7), MetricsOf(2, 5, 8)}

NoneWritten == [timestamp |-> 0]

\* a DailySnapshot that also carries the timestamp of the run
DailySnapshot_stamped(date, metrics) ==
  [date |-> date,
   timestamp |-> metrics.timestamp,
   issues |-> [open |-> metrics.issues.open_count],
   repository |-> metrics.repository,
   contributors |-> [total |-> metrics.contributors.total_known,
                     active_30d |-> metrics.contributors.active_30d,
                     first_time_30d |-> metrics.contributors.first_time_30d]]

\* index.ts:168-220: the DailySnapshot built from the metrics
DailySnapshot(date, metrics) ==
  [date |-> date,
   issues |-> [open |-> metrics.issues.open_count],
   repository |-> metrics.repository,
   contributors |-> [total |-> metrics.contributors.total_known,
                     active_30d |-> metrics.contributors.active_30d,
                     first_time_30d |-> metrics.contributors.first_time_30d]]

\* fs writeFile(path, data) on a directory
writeFile(dir, name, data) ==
  {f \in dir : f.name /= name} \cup {[name |-> name, data |-> data]}

InitSnap ==
  /\ sPc = "idle"
  /\ today = Now
  /\ sRepo = 1
  /\ sMetrics = NoneWritten
  /\ sDate = Now
  /\ snapshotsDir = [r \in Repos |-> {}]
  /\ latest = [r \in Repos |-> [d \in SnapDates |-> NoneWritten]]

\* midnight (UTC) passes
midnight ==
  /\ today + 1 \in SnapDates
  /\ today' = today + 1
  /\ UNCHANGED <<sPc, sRepo, sMetrics, sDate, snapshotsDir, latest>>

\* index.ts:162-166: writeSnapshot is called; it takes the date and awaits
\* ensureDir
writeSnapshot_enter(r, metrics) ==
  /\ sPc = "idle"
  /\ sPc' = "writeFile"
  /\ sRepo' = r
  /\ sMetrics' = metrics
  /\ sDate' = today
  /\ UNCHANGED <<today, snapshotsDir, latest>>

\* index.ts:168-222: the snapshot is built and writeFile resolves
writeSnapshot_writeFile ==
  /\ sPc = "writeFile"
  /\ snapshotsDir' = [snapshotsDir EXCEPT ![sRepo] =
        writeFile(@, SnapshotName(sDate), DailySnapshot(sDate, sMetrics))]
  /\ latest' = [latest EXCEPT ![sRepo][sDate] = sMetrics]
  /\ sPc' = "idle"
  /\ UNCHANGED <<today, sRepo, sMetrics, sDate>>

\* index.ts:222: writeFile rejects and writeSnapshot throws
writeSnapshot_rejects ==
  /\ sPc = "writeFile"
  /\ sPc' = "idle"
  /\ UNCHANGED <<today, sRepo, sMetrics, sDate, snapshotsDir, latest>>

(***************************************************************************)
(* consolidateSnapshots (src/src/data/retention.ts:190-255) over a         *)
(* snapshots directory.  A date is a day number, a month its quotient by   *)
(* DaysPerMonth.                                                           *)
(***************************************************************************)
\* retention.ts:192
retentionCutoff == Now - RETENTION_DAYS

\* the days a daily snapshot may be of: two of one month and one of the next
\* month older than the retention period, and the day of the cutoff itself
Days == {Now - 125, Now - 115, Now - 100, retentionCutoff}

\* retention.ts:183-185
getMonthKey(date) == date \div DaysPerMonth

Months == {getMonthKey(d) : d \in Days}

DailyName(d) == [kind |-> "daily", key |-> d]

MonthlyName(m) == [kind |-> "monthly", key |-> m]

\* a file of the directory that is no snapshot
OtherName == [kind |-> "other", key |-> 0]

\* the daily snapshot writeSnapshot left on day d
SnapshotOf(d) ==
  [date |-> d,
   issues |-> [open |-> 10 + (d \div 100), closed_30d |-> d % 7],
   repository |-> [stars |-> d, forks |-> d % 4],
   contributors |-> [total |-> d \div 10, active_30d |-> d % 6,
                     first_time_30d |-> d % 3]]

NoMonthly == [state |-> "absent", data |-> <<>>]

\* retention.ts:266-267
avg(values) == roundDiv(sum(values, Len(values)), Len(values))

RECURSIVE max(_, _)
\* Math.max(...values)
max(values, n) ==
  IF n = 1 THEN values[1]
  ELSE LET m == max(values, n - 1) IN IF values[n] > m THEN values[n] ELSE m

\* retention.ts:260-339
consolidateMonthlyData(monthKey, snapshots) ==
  LET len == Len(snapshots)
      lastSnapshot == snapshots[len]
  IN  [date |-> monthKey * DaysPerMonth,
       issues |-> [open |-> avg([i \in 1..len |-> snapshots[i].issues.open]),
                   closed_30d |->
                     avg([i \in 1..len |-> snapshots[i].issues.closed_30d])],
       repository |->
         [stars |-> max([i \in 1..len |-> snapshots[i].repository.stars], len),
          forks |-> max([i \in 1..len |-> snapshots[i].repository.forks], len)],
       contributors |->
         [total |-> max([i \in 1..len |-> snapshots[i].contributors.total], len),
          active_30d |-> avg([i \in 1..len |-> snapshots[i].contributors.active_30d]),
          first_time_30d |-> lastSnapshot.contributors.first_time_30d]]

RECURSIVE ascending(_)
\* a set of days or months in ascending order
ascending(S) ==
  IF S = {} THEN <<>>
  ELSE LET least == CHOOSE x \in S : \A y \in S : x <= y
       IN  <<least>> \o ascending(S \ {least})

reversed(arr) == [i \in 1..Len(arr) |-> arr[Len(arr) + 1 - i]]

\* what readdir answers: the names in the directory, in either order
listing(order) ==
  LET daily == ascending({d \in Days : dailyFile[d].exists})
      monthly == ascending({m \in Months : monthlyFile[m].state # "absent"})
      names == <<OtherName>> \o [i \in 1..Len(daily) |-> DailyName(daily[i])]
                 \o [i \in 1..Len(monthly) |-> MonthlyName(monthly[i])]
  IN  IF order = "ascending" THEN names ELSE reversed(names)

InitCons ==
  /\ kPc = "idle"
  /\ dailyFile = [d \in Days |-> Absent]
  /\ monthlyFile = [m \in Months |-> NoMonthly]
  /\ dirFiles = <<>>
  /\ fI = 0
  /\ monthlyGroups = <<>>
  /\ gI = 0
  /\ uI = 0
  /\ deleted = {}
  /\ monthlyWritten = {}
  /\ unreadable = {}
  /\ unlinkFailed = {}
  /\ everDeleted = {}
  /\ recordDays = [m \in Months |-> {}]

Running == kPc \in {"scan", "write", "writing", "unlink"}

\* index.ts:162-223 on day d: the daily snapshot of that day appears
dailySnapshot_written(d) ==
  /\ ~Running
  /\ ~dailyFile[d].exists
  /\ dailyFile' = [dailyFile EXCEPT ![d] = File(SnapshotOf(d))]
  /\ UNCHANGED <<kPc, monthlyFile, dirFiles, fI, monthlyGroups, gI, uI, deleted,
                 monthlyWritten,
                 unreadable, unlinkFailed,
                 everDeleted, recordDays>>

\* retention.ts:190-204: consolidateSnapshots is called; readdir
consolidateSnapshots_enter(order, readdirOk) ==
  /\ ~Running
  /\ deleted' = {}
  /\ monthlyWritten' = {}
  /\ unreadable' = {}
  /\ unlinkFailed' = {}
  /\ monthlyGroups' = <<>>
  /\ gI' = 0
  /\ uI' = 0
  /\ IF readdirOk
       THEN kPc' = "scan" /\ dirFiles' = listing(order) /\ fI' = 1
       ELSE kPc' = "done" /\ dirFiles' = <<>> /\ fI' = 0
  /\ UNCHANGED <<dailyFile, monthlyFile,
                 everDeleted, recordDays>>

\* retention.ts:204-206, 228-231: the loop over files is over; the loop over
\* monthlyGroups begins, or consolidateSnapshots returns
afterScan(groups) == IF Len(groups) = 0 THEN "done" ELSE "write"

\* a variant of IsSkipped without the test of the retention period
IsSkipped_anyAge(name) ==
  \/ name.kind = "monthly"
  \/ name.kind = "other"

\* retention.ts:206-214: a monthly file, a name that is no date, or a daily
\* snapshot within the retention period is passed over
IsSkipped(name) ==
  \/ name.kind = "monthly"
  \/ name.kind = "other"
  \/ name.key >= retentionCutoff

\* retention.ts:216-217: monthlyGroups.get(monthKey), as a position, 0 when none
groupIndex(groups, monthKey) ==
  IF \E i \in 1..Len(groups) : groups[i].monthKey = monthKey
    THEN CHOOSE i \in 1..Len(groups) : groups[i].monthKey = monthKey
    ELSE 0

\* retention.ts:217-224: the snapshot is pushed to the group of its month
pushed(groups, monthKey, snapshot, name) ==
  LET i == groupIndex(groups, monthKey)
  IN  IF i = 0
        THEN Append(groups, [monthKey |-> monthKey, snapshots |-> <<snapshot>>,
                             files |-> <<name>>])
        ELSE [groups EXCEPT ![i] = [monthKey |-> monthKey,
                                    snapshots |-> Append(@.snapshots, snapshot),
                                    files |-> Append(@.files, name)]]

\* a turn of the loop that groups the file whether or not it could be read
forFilename_unreadGrouped(readOk) ==
  LET name == dirFiles[fI]
      groups == IF IsSkipped(name)
                  THEN monthlyGroups
                  ELSE pushed(monthlyGroups, getMonthKey(name.key),
                              dailyFile[name.key].data, name)
  IN  /\ kPc = "scan"
      /\ IsSkipped(name) => readOk
      /\ monthlyGroups' = groups
      /\ unreadable' = IF ~IsSkipped(name) /\ ~readOk
                         THEN unreadable \cup {name.key} ELSE unreadable
      /\ IF fI < Len(dirFiles)
           THEN fI' = fI + 1 /\ kPc' = "scan" /\ gI' = gI
           ELSE fI' = fI /\ kPc' = afterScan(groups) /\ gI' = 1
      /\ UNCHANGED <<dailyFile, monthlyFile, dirFiles, uI, deleted, monthlyWritten,
                     unlinkFailed,
                     everDeleted, recordDays>>

\* retention.ts:206-228: one turn of the loop over files; readOk is whether
\* readFile and JSON.parse succeed
forFilename(readOk) ==
  LET name == dirFiles[fI]
      groups == IF IsSkipped(name) \/ ~readOk
                  THEN monthlyGroups
                  ELSE pushed(monthlyGroups, getMonthKey(name.key),
                              dailyFile[name.key].data, name)
  IN  /\ kPc = "scan"
      /\ IsSkipped(name) => readOk
      /\ monthlyGroups' = groups
      /\ unreadable' = IF ~IsSkipped(name) /\ ~readOk
                         THEN unreadable \cup {name.key} ELSE unreadable
      /\ IF fI < Len(dirFiles)
           THEN fI' = fI + 1 /\ kPc' = "scan" /\ gI' = gI
           ELSE fI' = fI /\ kPc' = afterScan(groups) /\ gI' = 1
      /\ UNCHANGED <<dailyFile, monthlyFile, dirFiles, uI, deleted, monthlyWritten,
                     unlinkFailed,
                     everDeleted, recordDays>>

\* retention.ts:239-242: writeFile has opened and truncated the monthly file
monthlyWrite_begin ==
  /\ kPc = "write"
  /\ monthlyFile' = [monthlyFile EXCEPT ![monthlyGroups[gI].monthKey] =
                       [state |-> "partial", data |-> <<>>]]
  /\ kPc' = "writing"
  /\ UNCHANGED <<dailyFile, dirFiles, fI, monthlyGroups, gI, uI, deleted,
                 monthlyWritten,
                 unreadable, unlinkFailed,
                 everDeleted, recordDays>>

\* the daily files of the group are deleted before the monthly file is written
monthlyWrite_end_afterUnlink ==
  LET group == monthlyGroups[gI]
      days == {group.files[i].key : i \in 1..Len(group.files)}
  IN  /\ kPc = "writing"
      /\ dailyFile' = [d \in Days |-> IF d \in days THEN Absent ELSE dailyFile[d]]
      /\ deleted' = deleted \cup days
      /\ everDeleted' = everDeleted \cup days
      /\ kPc' = "unlink"
      /\ uI' = 1
      /\ UNCHANGED <<monthlyFile, dirFiles, fI, monthlyGroups, gI, monthlyWritten,
                     unreadable, unlinkFailed,
                     recordDays>>

\* retention.ts:235-244: writeFile resolved: the monthly file holds the record
monthlyWrite_end ==
  LET group == monthlyGroups[gI]
  IN  /\ kPc = "writing"
      /\ monthlyFile' = [monthlyFile EXCEPT ![group.monthKey] =
                           [state |-> "complete",
                            data |-> consolidateMonthlyData(group.monthKey,
                                                            group.snapshots)]]
      /\ monthlyWritten' = monthlyWritten \cup {group.monthKey}
      /\ recordDays' = [recordDays EXCEPT ![group.monthKey] =
                          {group.files[i].key : i \in 1..Len(group.files)}]
      /\ kPc' = "unlink"
      /\ uI' = 1
      /\ UNCHANGED <<dailyFile, dirFiles, fI, monthlyGroups, gI, deleted,
                     unreadable, unlinkFailed,
                     everDeleted>>

\* retention.ts:239-242: writeFile rejected, before or after it truncated the
\* file; the error leaves consolidateSnapshots
monthlyWrite_rejects ==
  /\ kPc \in {"write", "writing"}
  /\ kPc' = "failed"
  /\ UNCHANGED <<dailyFile, monthlyFile, dirFiles, fI, monthlyGroups, gI, uI, deleted,
                 monthlyWritten,
                 unreadable, unlinkFailed,
                 everDeleted, recordDays>>

\* retention.ts:247-253 and 231: one turn of the loop over group.files; unlinkOk
\* is whether unlink succeeds; after the last one, the next group
forGroupFile(unlinkOk) ==
  LET group == monthlyGroups[gI]
      day == group.files[uI].key
  IN  /\ kPc = "unlink"
      /\ IF unlinkOk
           THEN /\ dailyFile' = [dailyFile EXCEPT ![day] = Absent]
                /\ deleted' = deleted \cup {day}
                /\ everDeleted' = everDeleted \cup {day}
                /\ unlinkFailed' = unlinkFailed
           ELSE /\ unlinkFailed' = unlinkFailed \cup {day}
                /\ UNCHANGED <<dailyFile, deleted, everDeleted>>
      /\ IF uI < Len(group.files)
           THEN uI' = uI + 1 /\ gI' = gI /\ kPc' = "unlink"
           ELSE /\ uI' = uI
                /\ IF gI < Len(monthlyGroups)
                     THEN gI' = gI + 1 /\ kPc' = "write"
                     ELSE gI' = gI /\ kPc' = "done"
      /\ UNCHANGED <<monthlyFile, dirFiles, fI, monthlyGroups, monthlyWritten,
                     unreadable,
                     recordDays>>

\* the process is killed between two steps
crash ==
  /\ Running
  /\ kPc' = "crashed"
  /\ UNCHANGED <<dailyFile, monthlyFile, dirFiles, fI, monthlyGroups, gI, uI, deleted,
                 monthlyWritten,
                 unreadable, unlinkFailed,
                 everDeleted, recordDays>>

(***************************************************************************)
(* fetchMaintainers (src/src/github/maintainers.ts:19-102) and             *)
(* calculateIssueMetrics (src/unnamed/part_002:18-212).  Times are in      *)
(* hours; the statistics are in tenths of an hour (round(x) keeps one      *)
(* decimal), reopen_rate in hundredths (round(x, 2)).                      *)
(***************************************************************************)
\* role names of users.ts, as pieces of text
RoleCore == <<"CORE", "_MAINTAINERS">>
RoleSdk == <<"TYPESCRIPT", "_SDK">>
RoleDocs == <<"DOCS", "_TEAM">>
RoleSdkTools == <<"_SDK", "_TOOLS">>

\* a user entry of users.ts that userBlockRegex matches (maintainers.ts:67)
UserBlock(github, memberOf) == [github |-> github, memberOf |-> memberOf]

\* contents of users.ts: no entry; a maintainer; entries without a
\* maintainer role
ContentSamples ==
  {<<>>,
   <<UserBlock(LoginBo, <<RoleDocs>>), UserBlock(LoginAl, <<RoleDocs, RoleCore, RoleSdk>>)>>,
   <<UserBlock(LoginAl, <<RoleSdkTools>>), UserBlock(LoginBo, <<>>)>>}

\* what client.rest.repos.getContent may do (maintainers.ts:28-37)
GetContentResponses ==
  {[kind |-> "rejected", content |-> <<>>], [kind |-> "directory", content |-> <<>>]}
    \cup {[kind |-> "file", content |-> c] : c \in ContentSamples}

\* maintainers.ts:81-83
maintainerRoles(roles) ==
  SelectSeq(roles, LAMBDA role : endsWith(role, <<"_MAINTAINERS">>)
                                   \/ endsWith(role, <<"_SDK">>))

RECURSIVE parseMaintainersFromTypeScript(_)
\* maintainers.ts:62-102
parseMaintainersFromTypeScript(content) ==
  IF content = <<>> THEN <<>>
  ELSE LET match == content[Len(content)]
           before == parseMaintainersFromTypeScript(SubSeq(content, 1, Len(content) - 1))
       IN  IF Len(maintainerRoles(match.memberOf)) > 0
             THEN Append(before, [github |-> match.github,
                                  roles |-> maintainerRoles(match.memberOf)])
             ELSE before

\* fetchMaintainers without its catch block
fetchMaintainers_uncaught(response) ==
  IF response.kind = "file"
    THEN [threw |-> FALSE,
          maintainers |-> parseMaintainersFromTypeScript(response.content)]
    ELSE [threw |-> TRUE, maintainers |-> <<>>]

\* maintainers.ts:19-54: threw is whether the promise rejects
fetchMaintainers(response) ==
  IF response.kind = "file"
    THEN [threw |-> FALSE,
          maintainers |-> parseMaintainersFromTypeScript(response.content)]
    ELSE [threw |-> FALSE, maintainers |-> <<>>]

\* Date.now(), in hours
nowHours == 24 * Now

Comment(author, createdAt) == [author |-> author, createdAt |-> createdAt]

\* a timeline node as the query returns it: FETCH_ISSUES_QUERY asks for
\* createdAt of ReopenedEvent and of ClosedEvent and not for __typename
\* (loader.ts:85-90); event is what the node is at the source
TimelineNode(event, createdAt) == [event |-> event, node |-> [createdAt |-> createdAt]]

\* the latest of some times
latestOf(times) == CHOOSE t \in times : \A u \in times : u <= t

\* a time that is null
NoTime == [isNull |-> TRUE, value |-> 0]

\* an issue as fetchIssues returns it (types/index.ts:216-240); closedAt is null
\* until closed says when
GitHubIssue(number, author, createdAt, commentNodes, timelineNodes) ==
  [number |-> number, author |-> author, createdAt |-> createdAt,
   updatedAt |-> latestOf({createdAt}
                            \cup {commentNodes[k].createdAt : k \in 1..Len(commentNodes)}
                            \cup {timelineNodes[k].node.createdAt :
                                     k \in 1..Len(timelineNodes)}),
   closedAt |-> NoTime,
   labels |-> [nodes |-> <<>>],
   comments |-> [nodes |-> commentNodes],
   timelineItems |-> [nodes |-> timelineNodes]]

closed(issue, closedAt) ==
  [issue EXCEPT !.closedAt = [isNull |-> FALSE, value |-> closedAt],
                !.updatedAt = latestOf({@, closedAt})]

\* the issue with labels of these names
labelled(issue, names) ==
  [issue EXCEPT !.labels = [nodes |-> [k \in 1..Len(names) |-> [name |-> names[k]]]]]

OpenIssueSamples ==
  {labelled(GitHubIssue(1, LoginBo, nowHours - 50,
                        <<Comment(LoginStale, nowHours - 49), Comment(LoginAl, nowHours - 20),
                          Comment(LoginAl, nowHours - 40)>>, <<>>),
            <<"bug", "docs">>),
   GitHubIssue(2, LoginAl, nowHours - 200,
               <<Comment(LoginAl, nowHours - 190), Comment(LoginBo, nowHours - 100)>>,
               <<TimelineNode("ClosedEvent", nowHours - 150),
                 TimelineNode("ReopenedEvent", nowHours - 140)>>),
   GitHubIssue(3, NoLogin, nowHours - 10, <<>>, <<>>),
   GitHubIssue(7, LoginBo, nowHours - 750, <<>>, <<>>)}

ClosedIssueSamples ==
  {closed(GitHubIssue(4, LoginBo, nowHours - 300, <<Comment(LoginAl, nowHours - 297)>>,
                      <<TimelineNode("ClosedEvent", nowHours - 250)>>),
          nowHours - 250),
   closed(GitHubIssue(5, LoginBo, nowHours - 400, <<>>,
                      <<TimelineNode("ClosedEvent", nowHours - 350),
                        TimelineNode("ReopenedEvent", nowHours - 340),
                        TimelineNode("ClosedEvent", nowHours - 330)>>),
          nowHours - 330),
   \* created exactly 30 days ago and closed exactly 7 days ago
   closed(GitHubIssue(6, LoginAl, nowHours - 30 * 24, <<>>, <<>>), nowHours - 7 * 24)}

\* the lists of up to MaxIssues different issues of S
IssueLists(S) ==
  {l \in SeqsUpTo(S, MaxIssues) : \A i, j \in 1..Len(l) : l[i] = l[j] => i = j}

IssueDataSamples ==
  [open : IssueLists(OpenIssueSamples), closed : IssueLists(ClosedIssueSamples)]

\* part_002:18-42; the first of the sorted eligible comments is the earliest
getTimeToFirstMaintainerResponse(issue, mset) ==
  LET eligibleComments ==
        SelectSeq(issue.comments.nodes,
                  LAMBDA c : /\ c.author /= NoLogin
                             /\ c.author /= issue.author
                             /\ ~isBot(c.author)
                             /\ c.author \in mset)
      n == Len(eligibleComments)
      firstResponse ==
        CHOOSE t \in {eligibleComments[i].createdAt : i \in 1..n} :
           \A i \in 1..n : t <= eligibleComments[i].createdAt
  IN  IF n = 0 THEN NoTime
      ELSE [isNull |-> FALSE, value |-> firstResponse - issue.createdAt]

\* part_002:47-51: event.__typename === 'ReopenedEvent' || 'createdAt' in event
hasBeenReopened(issue) ==
  \E i \in 1..Len(issue.timelineItems.nodes) :
     LET event == issue.timelineItems.nodes[i].node
     IN  \/ ("__typename" \in DOMAIN event /\ event["__typename"] = "ReopenedEvent")
         \/ "createdAt" \in DOMAIN event

RECURSIVE sortAscending(_)
\* Array.prototype.sort((a, b) => a - b)
sortAscending(values) ==
  IF values = <<>> THEN <<>>
  ELSE LET least == CHOOSE i \in 1..Len(values) :
                       \A j \in 1..Len(values) :
                          values[i] < values[j] \/ (values[i] = values[j] /\ i <= j)
       IN  <<values[least]>>
             \o sortAscending(SubSeq(values, 1, least - 1)
                              \o SubSeq(values, least + 1, Len(values)))

\* the interpolation with the two weights exchanged
percentile100_swapped(sortedValues, p) ==
  LET n == Len(sortedValues)
      lower == (p * (n - 1)) \div 100
      weight == (p * (n - 1)) % 100
      upper == IF weight = 0 THEN lower ELSE lower + 1
  IN  IF n = 0 THEN 0
      ELSE IF n = 1 THEN 100 * sortedValues[1]
      ELSE IF upper >= n THEN 100 * sortedValues[n]
      ELSE sortedValues[lower + 1] * weight + sortedValues[upper + 1] * (100 - weight)

\* percentile(sortedValues, p) (bots.ts:50-62), in hundredths: index is
\* p (n - 1) / 100, weight its fractional part
percentile100(sortedValues, p) ==
  LET n == Len(sortedValues)
      lower == (p * (n - 1)) \div 100
      weight == (p * (n - 1)) % 100
      upper == IF weight = 0 THEN lower ELSE lower + 1
  IN  IF n = 0 THEN 0
      ELSE IF n = 1 THEN 100 * sortedValues[1]
      ELSE IF upper >= n THEN 100 * sortedValues[n]
      ELSE sortedValues[lower + 1] * (100 - weight) + sortedValues[upper + 1] * weight

\* round(percentile(sortedValues, p)) (bots.ts:50-62, 91-94), in tenths
percentile(sortedValues, p) == roundDiv(percentile100(sortedValues, p), 10)

\* round(median(values)) (bots.ts:75-79), in tenths
median(values) == IF Len(values) = 0 THEN 0 ELSE percentile(sortAscending(values), 50)

\* the list left in the order of the open issues
byDaysWaiting_unsorted(list) == list

RECURSIVE byDaysWaiting(_)
\* part_002:124: sort((a, b) => b.daysWaiting - a.daysWaiting), a stable sort
byDaysWaiting(list) ==
  IF list = <<>> THEN <<>>
  ELSE LET most == CHOOSE i \in 1..Len(list) :
                      \A j \in 1..Len(list) :
                         \/ list[i].daysWaiting > list[j].daysWaiting
                         \/ (list[i].daysWaiting = list[j].daysWaiting /\ i <= j)
       IN  <<list[most]>>
             \o byDaysWaiting(SubSeq(list, 1, most - 1)
                              \o SubSeq(list, most + 1, Len(list)))

\* the issues of list of which test holds, as a number
count(list, test(_)) == Len(SelectSeq(list, test))

\* part_002:56-212: the volume, response and reopen part of it
calculateIssueMetrics(data, mset) ==
  LET closedIssues == data.closed
      answered(list) ==
        SelectSeq(list, LAMBDA i : ~getTimeToFirstMaintainerResponse(i, mset).isNull)
      unanswered ==
        SelectSeq(data.open, LAMBDA i : getTimeToFirstMaintainerResponse(i, mset).isNull)
      timesOf(list) ==
        [k \in 1..Len(list) |-> getTimeToFirstMaintainerResponse(list[k], mset).value]
      responseTimes == timesOf(answered(data.open)) \o timesOf(answered(closedIssues))
      sortedResponseTimes == sortAscending(responseTimes)
      ageOf(i) == nowHours - i.createdAt
      reopenedCount == count(closedIssues, hasBeenReopened)
      allIssues == data.open \o closedIssues
      closedWithin(hours) ==
        count(closedIssues,
              LAMBDA i : ~i.closedAt.isNull /\ nowHours - i.closedAt.value < hours)
      openedWithin(hours) == count(allIssues, LAMBDA i : ageOf(i) < hours)
      labeled == SelectSeq(data.open, LAMBDA i : Len(i.labels.nodes) > 0)
      labelNames == UNION {{i.labels.nodes[k].name : k \in 1..Len(i.labels.nodes)} :
                             i \in toSet(labeled)}
      wasClosed == SelectSeq(closedIssues, LAMBDA i : ~i.closedAt.isNull)
      \* closed - created, in hours; msToDays divides by 24
      closeTimes ==
        sortAscending([k \in 1..Len(wasClosed) |->
                         wasClosed[k].closedAt.value - wasClosed[k].createdAt])
      staleFor(hours) == count(data.open, LAMBDA i : nowHours - i.updatedAt > hours)
  IN  [open_count |-> Len(data.open),
       closed_7d |-> closedWithin(7 * 24),
       closed_30d |-> closedWithin(30 * 24),
       closed_90d |-> closedWithin(90 * 24),
       opened_7d |-> openedWithin(7 * 24),
       opened_30d |-> openedWithin(30 * 24),
       opened_90d |-> openedWithin(90 * 24),
       without_response_24h |-> count(unanswered, LAMBDA i : ageOf(i) > 24),
       without_response_7d |-> count(unanswered, LAMBDA i : ageOf(i) > 7 * 24),
       without_response_30d |-> count(unanswered, LAMBDA i : ageOf(i) > 30 * 24),
       issues_without_maintainer_response |->
         byDaysWaiting([k \in 1..Len(unanswered) |->
                          [number |-> unanswered[k].number,
                           daysWaiting |-> ageOf(unanswered[k]) \div 24]]),
       response_time |->
         [avg_hours |-> average(sortedResponseTimes),
          median_hours |-> median(sortedResponseTimes),
          p90_hours |-> percentile(sortedResponseTimes, 90),
          p95_hours |-> percentile(sortedResponseTimes, 95)],
       by_label |->
         [name \in labelNames |->
            Cardinality({k \in 1..Len(labeled) :
                           \E l \in 1..Len(labeled[k].labels.nodes) :
                              labeled[k].labels.nodes[l].name = name})],
       close_time |->
         [avg_days |-> IF Len(closeTimes) = 0 THEN 0
                       ELSE roundDiv(10 * sum(closeTimes, Len(closeTimes)),
                                     24 * Len(closeTimes)),
          median_days |-> roundDiv(percentile100(closeTimes, 50), 240),
          p90_days |-> roundDiv(percentile100(closeTimes, 90), 240)],
       label_coverage_pct |-> IF Len(data.open) > 0
                                THEN roundDiv(1000 * Len(labeled), Len(data.open))
                                ELSE 0,
       unlabeled_count |-> Len(data.open) - Len(labeled),
       stale_30d |-> staleFor(30 * 24),
       stale_60d |-> staleFor(60 * 24),
       stale_90d |-> staleFor(90 * 24),
       reopen_rate |-> IF Len(closedIssues) > 0
                         THEN roundDiv(100 * reopenedCount, Len(closedIssues))
                         ELSE 0]

NoIssueMetrics == [open_count |-> 0]

InitIssueMetrics ==
  /\ mPc = "idle"
  /\ getContentResponse = [kind |-> "none", content |-> <<>>]
  /\ maintainerSet = {}
  /\ issueData = [open |-> <<>>, closed |-> <<>>]
  /\ issueMetrics = NoIssueMetrics

\* aggregator.ts:75, maintainers.ts:28: fetchMaintainers is called and awaits
\* getContent
fetchMaintainers_enter ==
  /\ mPc = "idle"
  /\ mPc' = "getContent"
  /\ UNCHANGED <<getContentResponse, maintainerSet, issueData, issueMetrics>>

\* maintainers.ts:28-54, aggregator.ts:75-77: getContent settled and
\* fetchMaintainers with it; aggregate has no catch around it
fetchMaintainers_settles(response) ==
  LET result == fetchMaintainers(response)
  IN  /\ mPc = "getContent"
      /\ getContentResponse' = response
      /\ IF result.threw
           THEN mPc' = "failed" /\ maintainerSet' = maintainerSet
           ELSE /\ mPc' = "calculateIssueMetrics"
                /\ maintainerSet' = {result.maintainers[i].github :
                                       i \in 1..Len(result.maintainers)}
      /\ UNCHANGED <<issueData, issueMetrics>>

\* aggregator.ts:152: calculateIssueMetrics(issues, maintainerSet, ...) returns
calculateIssueMetrics_returns(data) ==
  /\ mPc = "calculateIssueMetrics"
  /\ issueData' = data
  /\ issueMetrics' = calculateIssueMetrics(data, maintainerSet)
  /\ mPc' = "done"
  /\ UNCHANGED <<getContentResponse, maintainerSet>>

(***************************************************************************)
(* The calculators called on their own: calculateHotspots                  *)
(* (src/src/metrics/hotspots.ts).  A file name is the sequence of its      *)
(* segments between '/'.                                                   *)
(***************************************************************************)
FileA == <<"src", "a.ts">>
FileB == <<"docs", "b.md">>
FileC == <<"README.md">>

\* a file of a pull request as listFiles gives it
GitHubPRFile(filename, changes) == [filename |-> filename, changes |-> changes]

\* the file lists of a pull request: none, one file, one file listed twice,
\* two files of two directories, a file at the root
PRFileSamples ==
  {<<>>,
   <<GitHubPRFile(FileA, 3)>>,
   <<GitHubPRFile(FileA, 3), GitHubPRFile(FileA, 10)>>,
   <<GitHubPRFile(FileA, 5), GitHubPRFile(FileB, 1)>>,
   <<GitHubPRFile(FileB, 2), GitHubPRFile(FileC, 4)>>}

\* the raw data of n pull requests, one record for each
HotspotRawData(n) ==
  {d \in [1..n -> [prNumber : 1..n, files : PRFileSamples]] :
     \A k \in 1..n : d[k].prNumber = n + 1 - k}

HotspotDataSamples == UNION {HotspotRawData(n) : n \in 0..MaxData}

TOP_FILES == 20
TOP_DIRECTORIES == 10

\* hotspots.ts:13-17: '/' for a path without '/', the path up to its last '/'
\* otherwise; <<>> stands for '/'
getDirectory(filePath) == SubSeq(filePath, 1, Len(filePath) - 1)

\* the position of path in a Map kept in insertion order, 0 when it has no entry
entryOf(map, path) ==
  IF \E n \in 1..Len(map) : map[n].path = path
    THEN CHOOSE n \in 1..Len(map) : map[n].path = path
    ELSE 0

\* hotspots.ts:31-38 with the test of line 31 left out
countFile_everyOccurrence(st, file) ==
  LET n == entryOf(st.fileStats, file.filename)
      entry == IF n = 0 THEN [path |-> file.filename, prCount |-> 0, totalChanges |-> 0]
                  ELSE st.fileStats[n]
      updated == [entry EXCEPT !.prCount = @ + 1,
                                  !.totalChanges = @ + file.changes]
  IN  [filesInPR |-> st.filesInPR \cup {file.filename},
       fileStats |-> IF n = 0 THEN Append(st.fileStats, updated)
                     ELSE [st.fileStats EXCEPT ![n] = updated]]

\* hotspots.ts:29-39: one file of a pull request
countFile(st, file) ==
  IF file.filename \in st.filesInPR THEN st
  ELSE countFile_everyOccurrence(st, file)

RECURSIVE countFiles(_, _)
\* hotspots.ts:29: for (const file of prData.files)
countFiles(st, files) ==
  IF files = <<>> THEN st ELSE countFiles(countFile(st, Head(files)), Tail(files))

RECURSIVE aggregateByFile(_, _)
\* hotspots.ts:26-40: for (const prData of data), filesInPR new for each
aggregateByFile(fileStats, data) ==
  IF data = <<>> THEN fileStats
  ELSE aggregateByFile(
         countFiles([filesInPR |-> {}, fileStats |-> fileStats], Head(data).files).fileStats,
         Tail(data))

\* hotspots.ts:59-62: one file of a pull request, for its directory
countDirectory(dirStats, prNumber, file) ==
  LET dir == getDirectory(file.filename)
      n == entryOf(dirStats, dir)
      entry == IF n = 0 THEN [path |-> dir, prNumbers |-> {}, files |-> {}]
                  ELSE dirStats[n]
      updated == [entry EXCEPT !.prNumbers = @ \cup {prNumber},
                                  !.files = @ \cup {file.filename}]
  IN  IF n = 0 THEN Append(dirStats, updated) ELSE [dirStats EXCEPT ![n] = updated]

RECURSIVE countDirectories(_, _, _)
\* hotspots.ts:56: for (const file of prData.files)
countDirectories(dirStats, prNumber, files) ==
  IF files = <<>> THEN dirStats
  ELSE countDirectories(countDirectory(dirStats, prNumber, Head(files)), prNumber,
                        Tail(files))

RECURSIVE aggregateByDirectory(_, _)
\* hotspots.ts:55-64
aggregateByDirectory(dirStats, data) ==
  IF data = <<>> THEN dirStats
  ELSE aggregateByDirectory(
         countDirectories(dirStats, Head(data).prNumber, Head(data).files), Tail(data))

RECURSIVE byPrCount(_)
\* sort((a, b) => b.pr_count - a.pr_count), a stable sort
byPrCount(list) ==
  IF list = <<>> THEN <<>>
  ELSE LET most == CHOOSE i \in 1..Len(list) :
                      \A j \in 1..Len(list) :
                         \/ list[i].pr_count > list[j].pr_count
                         \/ (list[i].pr_count = list[j].pr_count /\ i <= j)
       IN  <<list[most]>>
             \o byPrCount(SubSeq(list, 1, most - 1)
                          \o SubSeq(list, most + 1, Len(list)))

\* Array.prototype.slice(0, n)
slice(list, n) == SubSeq(list, 1, Min(n, Len(list)))

\* hotspots.ts:22-81
calculateHotspots(data) ==
  LET fileStats == aggregateByFile(<<>>, data)
      dirStats == aggregateByDirectory(<<>>, data)
  IN  [by_file |->
         slice(byPrCount([n \in 1..Len(fileStats) |->
                            [path |-> fileStats[n].path,
                             pr_count |-> fileStats[n].prCount,
                             total_changes |-> fileStats[n].totalChanges]]),
               TOP_FILES),
       by_directory |->
         slice(byPrCount([n \in 1..Len(dirStats) |->
                            [path |-> dirStats[n].path,
                             pr_count |-> Cardinality(dirStats[n].prNumbers),
                             file_count |-> Cardinality(dirStats[n].files)]]),
               TOP_DIRECTORIES),
       top_n |-> TOP_FILES]

(***************************************************************************)
(* calculatePRMetrics (src/src/metrics/pulls.ts), times in hours           *)
(***************************************************************************)
SMALL_THRESHOLD == 100
MEDIUM_THRESHOLD == 500

instant(time) == [isNull |-> FALSE, value |-> time]

\* a pull request as fetchPullRequests returns it (types/index.ts:261-297)
GitHubPullRequest(number, author, createdAt, isDraft, lines, reviewNodes) ==
  [number |-> number, author |-> author, createdAt |-> createdAt,
   mergedAt |-> NoTime, closedAt |-> NoTime, isDraft |-> isDraft,
   additions |-> lines, deletions |-> lines,
   reviews |-> [nodes |-> reviewNodes, totalCount |-> Len(reviewNodes)]]

merged(pr, mergedAt) == [pr EXCEPT !.mergedAt = instant(mergedAt), !.closedAt = instant(mergedAt)]

closedNotMerged(pr, closedAt) == [pr EXCEPT !.closedAt = instant(closedAt)]

\* an open pull request reviewed by 'Al', and a large open draft nobody reviewed
OpenPRSamples ==
  {GitHubPullRequest(1, LoginBo, nowHours - 50, FALSE, 10,
                     <<Comment(LoginAl, nowHours - 40)>>),
   GitHubPullRequest(2, LoginAl, nowHours - 200, TRUE, 300, <<>>)}

\* a pull request merged after a review of 'Al', and one closed without merge
ClosedPRSamples ==
  {merged(GitHubPullRequest(3, LoginBo, nowHours - 300, FALSE, 60,
                            <<Comment(LoginAl, nowHours - 290)>>),
          nowHours - 250),
   closedNotMerged(GitHubPullRequest(4, LoginBo, nowHours - 100, FALSE, 5, <<>>),
                   nowHours - 90)}

PullRequestDataSamples ==
  [open : IssueLists(OpenPRSamples), closed : IssueLists(ClosedPRSamples)]

\* pulls.ts:21-45
getTimeToFirstMaintainerReview(pr, mset) ==
  LET eligibleReviews ==
        SelectSeq(pr.reviews.nodes,
                  LAMBDA review : /\ review.author /= NoLogin
                                  /\ review.author /= pr.author
                                  /\ ~isBot(review.author)
                                  /\ review.author \in mset)
      n == Len(eligibleReviews)
      firstReview ==
        CHOOSE t \in {eligibleReviews[i].createdAt : i \in 1..n} :
           \A i \in 1..n : t <= eligibleReviews[i].createdAt
  IN  IF n = 0 THEN NoTime ELSE instant(firstReview - pr.createdAt)

\* pulls.ts:50-55
getPRSize(pr) ==
  LET totalLines == pr.additions + pr.deletions
  IN  IF totalLines < SMALL_THRESHOLD THEN "small"
      ELSE IF totalLines < MEDIUM_THRESHOLD THEN "medium" ELSE "large"

\* pulls.ts:60-229
calculatePRMetrics(data, mset) ==
  LET mergedPRsOf == SelectSeq(data.closed, LAMBDA pr : ~pr.mergedAt.isNull)
      notMerged == SelectSeq(data.closed, LAMBDA pr : pr.mergedAt.isNull)
      mergedWithin(hours) ==
        count(mergedPRsOf, LAMBDA pr : nowHours - pr.mergedAt.value < hours)
      closed_not_merged_90d ==
        count(notMerged,
              LAMBDA pr : ~pr.closedAt.isNull /\ nowHours - pr.closedAt.value < 90 * 24)
      allPRs == data.open \o data.closed
      openedWithin(hours) == count(allPRs, LAMBDA pr : nowHours - pr.createdAt < hours)
      reviewed(list) ==
        SelectSeq(list, LAMBDA pr : ~getTimeToFirstMaintainerReview(pr, mset).isNull)
      unreviewed ==
        SelectSeq(data.open, LAMBDA pr : getTimeToFirstMaintainerReview(pr, mset).isNull)
      timesOf(list) ==
        [k \in 1..Len(list) |-> getTimeToFirstMaintainerReview(list[k], mset).value]
      reviewTimes ==
        timesOf(SelectSeq(reviewed(data.open), LAMBDA pr : ~pr.isDraft))
          \o timesOf(reviewed(mergedPRsOf))
      sortedReviewTimes == sortAscending(reviewTimes)
      mergeTimes ==
        sortAscending([k \in 1..Len(mergedPRsOf) |->
                         mergedPRsOf[k].mergedAt.value - mergedPRsOf[k].createdAt])
      waitingFor(hours) ==
        count(unreviewed, LAMBDA pr : ~pr.isDraft /\ nowHours - pr.createdAt > hours)
      sized(size) == count(data.open, LAMBDA pr : getPRSize(pr) = size)
      recentMergedPRs ==
        SelectSeq(mergedPRsOf, LAMBDA pr : nowHours - pr.mergedAt.value < 90 * 24)
      mergedWithReview == count(recentMergedPRs, LAMBDA pr : pr.reviews.totalCount > 0)
      totalClosed90d == mergedWithin(90 * 24) + closed_not_merged_90d
      totalReviews ==
        sum([k \in 1..Len(recentMergedPRs) |-> recentMergedPRs[k].reviews.totalCount],
            Len(recentMergedPRs))
  IN  [open_count |-> Len(data.open),
       merged_7d |-> mergedWithin(7 * 24),
       merged_30d |-> mergedWithin(30 * 24),
       merged_90d |-> mergedWithin(90 * 24),
       opened_7d |-> openedWithin(7 * 24),
       opened_30d |-> openedWithin(30 * 24),
       opened_90d |-> openedWithin(90 * 24),
       closed_not_merged_90d |-> closed_not_merged_90d,
       draft_count |-> count(data.open, LAMBDA pr : pr.isDraft),
       without_review_24h |-> waitingFor(24),
       without_review_7d |-> waitingFor(7 * 24),
       prs_without_maintainer_review |->
         byDaysWaiting([k \in 1..Len(unreviewed) |->
                          [number |-> unreviewed[k].number,
                           daysWaiting |-> (nowHours - unreviewed[k].createdAt) \div 24]]),
       review_time |->
         [avg_hours |-> average(sortedReviewTimes),
          median_hours |-> median(sortedReviewTimes),
          p90_hours |-> percentile(sortedReviewTimes, 90),
          p95_hours |-> percentile(sortedReviewTimes, 95)],
       merge_time |->
         [avg_hours |-> average(mergeTimes),
          median_hours |-> median(mergeTimes)],
       code_review_rate_pct |->
         IF mergedWithin(90 * 24) > 0
           THEN roundDiv(1000 * mergedWithReview, mergedWithin(90 * 24)) ELSE 0,
       rejection_rate_pct |->
         IF totalClosed90d > 0
           THEN roundDiv(1000 * closed_not_merged_90d, totalClosed90d) ELSE 0,
       avg_reviews_per_pr |->
         IF Len(recentMergedPRs) > 0
           THEN roundDiv(10 * totalReviews, Len(recentMergedPRs)) ELSE 0,
       by_size |-> [small |-> sized("small"), medium |-> sized("medium"),
                    large |-> sized("large")]]

InitCalc ==
  /\ called = "none"
  /\ args = <<>>
  /\ returned = <<>>

\* aggregator.ts:155: calculateHotspots(hotspotData) returns
calculateHotspots_returns(data) ==
  /\ called' = "calculateHotspots"
  /\ args' = [data |-> data]
  /\ returned' = calculateHotspots(data)

\* what earlier runs may have left on disk for the repository: the contributor
\* registry and the 30-day-active set of the prior period
RegistrySamples == {<<LoginAl, LoginBo>>}

PriorPeriodSamples == {<<>>, <<LoginBo>>}

\* index.ts:232-243 and part_001:156 of an earlier run
earlierRun_wrote(registry, prior) ==
  /\ ~registryFile[repo].exists
  /\ registryFile' = [registryFile EXCEPT ![repo] =
                        File([lastUpdated |-> 0, contributors |-> registry])]
  /\ prevFile' = [prevFile EXCEPT ![repo] = File(prior)]
  /\ UNCHANGED <<aPc, dryRun, runs, repoI, maintainers, issues, pulls, commits,
                 existingContributors, previousPeriodContributors, contributorMetrics,
                 existing, metricsFile, snapshotFile, maintainersFile, repoIndexFile,
                 ucReadFailed, fetchesDone, computesDone, written, failedAt>>

\* aggregator.ts:154: calculateContributorMetrics(issues, pulls, commits,
\* maintainerSet, repoConfig) is awaited to its return (part_001:34-171)
calculateContributorMetrics_returns(i, p, c, mset) ==
  /\ issues' = i
  /\ pulls' = p
  /\ commits' = c
  /\ maintainers' = mset
  /\ existingContributors' =
       IF registryFile[repo].exists
         THEN toSet(registryFile[repo].data.contributors) ELSE {}
  /\ previousPeriodContributors' =
       IF prevFile[repo].exists THEN toSet(prevFile[repo].data) ELSE {}
  /\ prevFile' = [prevFile EXCEPT ![repo] = File(sort(activeContributors'))]
  /\ called' = "calculateContributorMetrics"
  /\ args' = [issues |-> i, pulls |-> p, commits |-> c, maintainerSet |-> mset]
  /\ returned' = contributorMetricsValue'
  /\ UNCHANGED <<aPc, dryRun, runs, repoI, contributorMetrics, existing, registryFile,
                 metricsFile, snapshotFile, maintainersFile, repoIndexFile,
                 ucReadFailed, fetchesDone, computesDone, written, failedAt>>

\* the sorted lists of up to MaxSorted values in 0..MaxValue
SortedLists ==
  UNION {{l \in [1..n -> 0..MaxValue] : \A k \in 1..(n - 1) : l[k] <= l[k + 1]} :
           n \in 0..MaxSorted}

\* bots.ts:50-62: percentile(sortedValues, p) returns, in hundredths
percentile_returns(sortedValues, p) ==
  /\ called' = "percentile"
  /\ args' = [sortedValues |-> sortedValues, p |-> p]
  /\ returned' = percentile100(sortedValues, p)

\* aggregator.ts:153: calculatePRMetrics(pulls, maintainerSet, ...) returns
calculatePRMetrics_returns(data, mset) ==
  /\ called' = "calculatePRMetrics"
  /\ args' = [data |-> data, maintainerSet |-> mset]
  /\ returned' = calculatePRMetrics(data, mset)

\* aggregator.ts:152: calculateIssueMetrics(issues, maintainerSet, ...) returns
calculateIssueMetrics_called(data, mset) ==
  /\ called' = "calculateIssueMetrics"
  /\ args' = [data |-> data, maintainerSet |-> mset]
  /\ returned' = calculateIssueMetrics(data, mset)

(***************************************************************************)
(* withRetry called on its own, with any parameters and any outcomes of fn *)
(***************************************************************************)
DirectCall ==
  \E m \in -1..MaxRetriesBound, b \in {1000, DEFAULT_BASE_DELAY_MS} :
     withRetry_enter("direct", m, b) /\ UNCHANGED nonRetryVars

DirectFnResolves ==
  wrCaller = "direct" /\ withRetry_return("ok") /\ UNCHANGED nonRetryVars

DirectFnRejects ==
  wrCaller = "direct" /\ (\E e \in Errors : withRetry_catch(e)) /\ UNCHANGED nonRetryVars

DirectWake == wrCaller = "direct" /\ withRetry_wake /\ UNCHANGED nonRetryVars

NextRetry == DirectCall \/ DirectFnResolves \/ DirectFnRejects \/ DirectWake

Init == InitRetry /\ InitColl /\ InitHot /\ InitAgg /\ InitCons /\ InitSnap
          /\ InitIssueMetrics /\ InitCalc

SpecRetry == Init /\ [][NextRetry]_vars

\* fn settles and timers fire: every enabled step of withRetry is eventually taken
FairSpecRetry == SpecRetry /\ WF_vars(NextRetry)

(***************************************************************************)
(* One collection: fetchIssuesByState or fetchPRsByState, open (no cutoff) *)
(* or closed/merged (stopAtCutoff), against any pages the source serves.   *)
(***************************************************************************)
CollectStart ==
  /\ \E kind \in {"issues", "pulls"}, stop \in BOOLEAN : fetchByState_enter(kind, stop)
  /\ UNCHANGED nonCollVars

IssuesPageResolves ==
  (\E page \in PageResponses : issuesPage_resolves(page)) /\ UNCHANGED nonCollVars

IssuesPageRejects ==
  (\E e \in CollectErrors : issuesPage_rejects(e)) /\ UNCHANGED nonCollVars

PullsPageFnResolves == \E page \in PageResponses : pullsPage_fnResolves(page)

PullsPageFnRejects == \E e \in CollectErrors : pullsPage_fnRejects(e)

ForItem == forItem /\ UNCHANGED nonCollVars

PageDelayElapsed == pageDelay_elapsed /\ UNCHANGED nonCollVars

CommentsPageResolves == commentsPage_resolves /\ UNCHANGED nonCollVars

CommentsPageRejects ==
  (\E e \in CollectErrors : commentsPage_rejects(e)) /\ UNCHANGED nonCollVars

CommentDelayElapsed == commentDelay_elapsed /\ UNCHANGED nonCollVars

NextCollect ==
  \/ CollectStart
  \/ IssuesPageResolves
  \/ IssuesPageRejects
  \/ pullsPage_request
  \/ PullsPageFnResolves
  \/ pullsPage_fnResolvesNull
  \/ PullsPageFnRejects
  \/ pullsPage_wake
  \/ pullsPage_settled
  \/ ForItem
  \/ PageDelayElapsed
  \/ CommentsPageResolves
  \/ CommentsPageRejects
  \/ CommentDelayElapsed

SpecCollect == Init /\ [][NextCollect]_vars

(***************************************************************************)
(* One call of fetchHotspotData, batched or sequential, against any        *)
(* outcome of every pulls.listFiles request.                               *)
(***************************************************************************)
\* the merged pull requests of a closed/merged collection, newest first
PRNumbers(n) == [k \in 1..n |-> n + 1 - k]

HotspotStart ==
  /\ \E variant \in {"batched", "sequential"}, n \in 0..MaxPRs :
        fetchHotspotData_enter(variant, PRNumbers(n))
  /\ UNCHANGED nonRetryHotVars

ListFilesResolves ==
  /\ \E k \in 1..Len(mergedPRs), files \in FileLists : listFiles_resolves(k, files)
  /\ UNCHANGED nonHotVars

ListFilesRejects ==
  /\ \E k \in 1..Len(mergedPRs) : listFiles_rejects(k)
  /\ UNCHANGED nonHotVars

ProcessBatchedCollect == processBatched_collect /\ UNCHANGED nonHotVars

ProcessBatchedWake == processBatched_wake /\ UNCHANGED nonHotVars

SequentialFnResolves ==
  /\ \E files \in FileLists : sequential_fnResolves(files)
  /\ UNCHANGED nonRetryHotVars

SequentialFnRejects ==
  /\ \E e \in CollectErrors : sequential_fnRejects(e)
  /\ UNCHANGED nonRetryHotVars

SequentialRetryWake == sequential_retryWake /\ UNCHANGED nonRetryHotVars

ProcessSequentialSettled == processSequential_settled /\ UNCHANGED nonRetryHotVars

ProcessSequentialWake == processSequential_wake /\ UNCHANGED nonRetryHotVars

NextHotspot ==
  \/ HotspotStart
  \/ ListFilesResolves
  \/ ListFilesRejects
  \/ ProcessBatchedCollect
  \/ ProcessBatchedWake
  \/ SequentialFnResolves
  \/ SequentialFnRejects
  \/ SequentialRetryWake
  \/ ProcessSequentialSettled
  \/ ProcessSequentialWake

SpecHotspot == Init /\ [][NextHotspot]_vars

(***************************************************************************)
(* Runs of aggregate over the configured repositories, against any         *)
(* outcome of every fetch, file read and file write.                       *)
(***************************************************************************)
AggregateStart ==
  /\ \E dry \in BOOLEAN : aggregate_enter(dry)
  /\ UNCHANGED nonAggVars

FetchRejects == fetch_rejects /\ UNCHANGED nonAggVars

WriteFileRejects == writeFile_rejects /\ UNCHANGED nonAggVars

FetchMaintainersResolves ==
  /\ \E m \in MaintainerSamples : fetchMaintainers_resolves(m)
  /\ UNCHANGED nonAggVars

FetchIssuesResolves ==
  /\ \E acts \in IssueSamples : fetchIssues_resolves(acts)
  /\ UNCHANGED nonAggVars

FetchPullRequestsResolves ==
  /\ \E acts \in PullSamples : fetchPullRequests_resolves(acts)
  /\ UNCHANGED nonAggVars

FetchStageResolves == fetchStage_resolves /\ UNCHANGED nonAggVars

FetchCommitsResolves ==
  /\ \E acts \in CommitSamples : fetchCommits_resolves(acts)
  /\ UNCHANGED nonAggVars

LoadContributorsSettles ==
  /\ \E readOk \in BOOLEAN : loadContributors_settles(readOk)
  /\ UNCHANGED nonAggVars

LoadPreviousPeriodContributorsSettles ==
  loadPreviousPeriodContributors_settles /\ UNCHANGED nonAggVars

SavePreviousPeriodContributorsResolves ==
  savePreviousPeriodContributors_resolves /\ UNCHANGED nonAggVars

WriteMetricsResolves == writeMetrics_resolves /\ UNCHANGED nonAggVars

UpdateContributorsRead ==
  /\ \E readOk \in BOOLEAN : updateContributors_read(readOk)
  /\ UNCHANGED nonAggVars

UpdateContributorsWrite == updateContributors_write /\ UNCHANGED nonAggVars

WriteSnapshotResolves == writeSnapshot_resolves /\ UNCHANGED nonAggVars

WriteMaintainersResolves == writeMaintainers_resolves /\ UNCHANGED nonAggVars

WriteRepoIndexResolves == writeRepoIndex_resolves /\ UNCHANGED nonAggVars

NextAggregate ==
  \/ AggregateStart
  \/ FetchRejects
  \/ WriteFileRejects
  \/ FetchMaintainersResolves
  \/ FetchIssuesResolves
  \/ FetchPullRequestsResolves
  \/ FetchStageResolves
  \/ FetchCommitsResolves
  \/ LoadContributorsSettles
  \/ LoadPreviousPeriodContributorsSettles
  \/ SavePreviousPeriodContributorsResolves
  \/ WriteMetricsResolves
  \/ UpdateContributorsRead
  \/ UpdateContributorsWrite
  \/ WriteSnapshotResolves
  \/ WriteMaintainersResolves
  \/ WriteRepoIndexResolves

SpecAggregate == Init /\ [][NextAggregate]_vars

(***************************************************************************)
(* Runs of consolidateSnapshots over a directory that daily snapshots are  *)
(* added to between the runs, against any outcome of every file operation  *)
(* and a crash at any step.                                                *)
(***************************************************************************)
DailySnapshotWritten ==
  /\ \E d \in Days : dailySnapshot_written(d)
  /\ UNCHANGED nonConsVars

ConsolidateStart ==
  /\ \E order \in {"ascending", "descending"}, readdirOk \in BOOLEAN :
        consolidateSnapshots_enter(order, readdirOk)
  /\ UNCHANGED nonConsVars

ForFilename ==
  /\ \E readOk \in BOOLEAN : forFilename(readOk)
  /\ UNCHANGED nonConsVars

MonthlyWriteBegin == monthlyWrite_begin /\ UNCHANGED nonConsVars

MonthlyWriteEnd == monthlyWrite_end /\ UNCHANGED nonConsVars

MonthlyWriteRejects == monthlyWrite_rejects /\ UNCHANGED nonConsVars

ForGroupFile ==
  /\ \E unlinkOk \in BOOLEAN : forGroupFile(unlinkOk)
  /\ UNCHANGED nonConsVars

Crash == crash /\ UNCHANGED nonConsVars

NextConsolidate ==
  \/ DailySnapshotWritten
  \/ ConsolidateStart
  \/ ForFilename
  \/ MonthlyWriteBegin
  \/ MonthlyWriteEnd
  \/ MonthlyWriteRejects
  \/ ForGroupFile
  \/ Crash

SpecConsolidate == Init /\ [][NextConsolidate]_vars

Midnight == midnight /\ UNCHANGED nonSnapVars
WriteSnapshotEnter ==
  /\ \E r \in Repos, metrics \in MetricsSamples : writeSnapshot_enter(r, metrics)
  /\ UNCHANGED nonSnapVars
WriteSnapshotWriteFile == writeSnapshot_writeFile /\ UNCHANGED nonSnapVars
WriteSnapshotRejects == writeSnapshot_rejects /\ UNCHANGED nonSnapVars

NextSnapshot ==
  \/ Midnight
  \/ WriteSnapshotEnter
  \/ WriteSnapshotWriteFile
  \/ WriteSnapshotRejects

SpecSnapshot == Init /\ [][NextSnapshot]_vars

FetchMaintainersEnter == fetchMaintainers_enter /\ UNCHANGED nonImVars
FetchMaintainersSettles ==
  /\ \E response \in GetContentResponses : fetchMaintainers_settles(response)
  /\ UNCHANGED nonImVars
CalculateIssueMetricsReturns ==
  /\ \E data \in IssueDataSamples : calculateIssueMetrics_returns(data)
  /\ UNCHANGED nonImVars

NextIssueMetrics ==
  \/ FetchMaintainersEnter
  \/ FetchMaintainersSettles
  \/ CalculateIssueMetricsReturns

SpecIssueMetrics == Init /\ [][NextIssueMetrics]_vars

(***************************************************************************)
(* The calculators called on their own, with any inputs: a behaviour is    *)
(* one call of one calculator, after what earlier runs left on disk        *)
(***************************************************************************)
CalculateHotspotsReturns ==
  /\ called = "none"
  /\ \E data \in HotspotDataSamples : calculateHotspots_returns(data)
  /\ UNCHANGED nonCalcVars

CalculatePRMetricsReturns ==
  /\ called = "none"
  /\ \E data \in PullRequestDataSamples, mset \in {{}, {LoginAl}} :
        calculatePRMetrics_returns(data, mset)
  /\ UNCHANGED nonCalcVars

CalculateIssueMetricsCalled ==
  /\ called = "none"
  /\ \E data \in IssueDataSamples, mset \in {{}, {LoginAl}} :
        calculateIssueMetrics_called(data, mset)
  /\ UNCHANGED nonCalcVars

EarlierRunWrote ==
  /\ called = "none"
  /\ \E registry \in RegistrySamples, prior \in PriorPeriodSamples :
        earlierRun_wrote(registry, prior)
  /\ UNCHANGED <<retryVars, collVars, hotVars, consVars, snapVars, imVars, calcVars>>

CalculateContributorMetricsReturns ==
  /\ called = "none"
  /\ \E i \in IssueSamples, p \in PullSamples \cup {<<>>}, c \in CommitSamples,
        mset \in {{}, {LoginAl}} :
        calculateContributorMetrics_returns(i, p, c, mset)
  /\ UNCHANGED <<retryVars, collVars, hotVars, consVars, snapVars, imVars>>

PercentileReturns ==
  /\ called = "none"
  /\ \E sortedValues \in SortedLists, p \in 0..100 : percentile_returns(sortedValues, p)
  /\ UNCHANGED nonCalcVars

NextCalculators ==
  \/ CalculateHotspotsReturns
  \/ CalculatePRMetricsReturns
  \/ CalculateIssueMetricsCalled
  \/ EarlierRunWrote
  \/ CalculateContributorMetricsReturns
  \/ PercentileReturns

SpecCalculators == Init /\ [][NextCalculators]_vars

(***************************************************************************)
(* C1: for any outcomes of fn, withRetry invokes fn at most maxRetries + 1 *)
(* times; the first success is returned and fn is not invoked again; a     *)
(* failure classified as fatal is rethrown at once, without another        *)
(* invocation; when every attempt fails retriably the error thrown is the  *)
(* one the last attempt raised, unchanged; and withRetry always settles.   *)
(***************************************************************************)
AllButLastRetriable ==
  \A i \in 1..(Len(raised) - 1) : isRetriableError(raised[i]).retriable

C1_Safety ==
  /\ fnCalls <= maxRetries + 1
  /\ wrPc \in {"call", "sleep"} =>
       /\ fnCalls = Len(raised)
       /\ \A i \in 1..Len(raised) : isRetriableError(raised[i]).retriable
       /\ fnCalls <= maxRetries
  /\ wrPc = "returned" =>
       /\ wrOutcome = [kind |-> "value", val |-> "ok"]
       /\ fnCalls = Len(raised) + 1
       /\ \A i \in 1..Len(raised) : isRetriableError(raised[i]).retriable
  /\ (wrPc = "thrown" /\ raised # <<>>) =>
       /\ fnCalls = Len(raised)
       /\ wrOutcome = [kind |-> "error", val |-> raised[Len(raised)]]
       /\ AllButLastRetriable
       /\ \/ ~isRetriableError(raised[Len(raised)]).retriable
          \/ fnCalls = maxRetries + 1

C1_WithRetryContract ==
  /\ []C1_Safety
  /\ [][withRetry_settled => (fnCalls' = fnCalls /\ wrOutcome' = wrOutcome)]_vars
  /\ (wrPc # "idle") ~> withRetry_settled

\* every attempt of a call with maxRetries >= 2 failed retriably
C1_Witness_Exhausted ==
  /\ wrPc = "thrown"
  /\ maxRetries >= 2
  /\ fnCalls = maxRetries + 1
  /\ isRetriableError(raised[Len(raised)]).retriable

(***************************************************************************)
(* C2: a failure with an HTTP status in 400-499 that is not a rate-limit   *)
(* failure is fatal: no invocation and no sleep follows it and it is the   *)
(* error propagated; only rate limiting, timeouts, 5xx statuses and        *)
(* transient network faults are followed by a retry.                       *)
(***************************************************************************)
IsRateLimitFailure(e) == includes(toLowerCase(e.message), <<"rate", " ", "limit">>)

IsTimeoutFailure(e) ==
  \/ includes(toLowerCase(e.message), <<"time", "out">>)
  \/ includes(toLowerCase(e.message), <<"time", "d", " ", "out">>)
  \/ includes(toLowerCase(e.message), <<"couldn't", " ", "respond">>)

IsNetworkFailure(e) ==
  \/ includes(toLowerCase(e.message), <<"econnreset">>)
  \/ includes(toLowerCase(e.message), <<"enotfound">>)
  \/ includes(toLowerCase(e.message), <<"socket">>)
  \/ includes(toLowerCase(e.message), <<"network">>)

Is4xxNotRateLimit(e) == e.status >= 400 /\ e.status <= 499 /\ ~IsRateLimitFailure(e)

C2_Permanent4xxIsFatal ==
  \A i \in 1..Len(raised) :
     /\ Is4xxNotRateLimit(raised[i]) =>
          /\ i = Len(raised)
          /\ Len(slept) = i - 1
          /\ wrPc = "thrown"
          /\ wrOutcome = [kind |-> "error", val |-> raised[i]]
     /\ Len(slept) >= i =>
          \/ IsRateLimitFailure(raised[i])
          \/ IsTimeoutFailure(raised[i])
          \/ (raised[i].status >= 500 /\ raised[i].status < 600)
          \/ IsNetworkFailure(raised[i])

(***************************************************************************)
(* C3: every request of a collector goes through withRetry, so a single    *)
(* retriable failure (here a 5xx answer) of one request is retried and     *)
(* does not abort the collection.                                          *)
(***************************************************************************)
C3_SingleRetriableFailureSurvives ==
  (cPc = "aborted" /\ cFailures = 1) =>
     ~(cError.status >= 500 /\ cError.status < 600)

(***************************************************************************)
(* C4: in a collection with stopAtCutoff, meeting an item whose updatedAt  *)
(* is before the cutoff ends the collection at once: that item and the     *)
(* later items of the page are not collected and no further page is        *)
(* requested; so every collected item has updatedAt at or after the cutoff *)
(***************************************************************************)
MeetsStaleItem ==
  /\ cPc = "items"
  /\ stopAtCutoff
  /\ idx <= Len(nodes)
  /\ nodes[idx].updatedAt < Now - NINETY_DAYS

C4_AllCollectedFresh ==
  stopAtCutoff => \A i \in 1..Len(collected) : collected[i].updatedAt >= Now - NINETY_DAYS

OneRecordPerPR ==
  /\ Len(results) = Len(mergedPRs)
  /\ \A k \in 1..Len(mergedPRs) :
        /\ results[k].prNumber = mergedPRs[k]
        /\ results[k].files = IF reqState[k] = "failed" THEN <<>> ELSE fetched[k]

C5_FailureNeverAborts ==
  /\ hPc # "aborted"
  /\ hPc = "done" => OneRecordPerPR

\* the same statement, of the batched fetchHotspotData alone
C5_BatchedOnly == hVariant = "batched" => C5_FailureNeverAborts

(***************************************************************************)
(* C6: the batched fetchHotspotData has at most BATCH_SIZE requests in     *)
(* flight; a request of a later batch starts only after every request of   *)
(* every earlier batch completed and the delay between the batches         *)
(* elapsed; no delay follows the last batch.                               *)
(***************************************************************************)
InFlight == {k \in 1..Len(mergedPRs) : reqState[k] = "inflight"}

batchOf(k) == (k - 1) \div BATCH_SIZE

Started(k) == reqState[k] # "pending"

Completed(k) == reqState[k] \in {"ok", "failed"}

registered(file) == IF file.exists THEN toSet(file.data.contributors) ELSE {}

IsSortedNoDup(arr) == \A i \in 1..(Len(arr) - 1) : lessThan(arr[i], arr[i + 1])

RegistryKept(r) ==
  /\ registryFile[r].exists => registryFile'[r].exists
  /\ registered(registryFile[r]) \subseteq registered(registryFile'[r])

RegistrySorted ==
  \A r \in Repos :
     registryFile[r].exists => IsSortedNoDup(registryFile[r].data.contributors)

C7_RegistryOnlyGrows ==
  /\ []RegistrySorted
  /\ [][~dryRun => \A r \in Repos : RegistryKept(r)]_vars

\* the same statement, of the runs in which updateContributors could read the file
C7_WhenReadable ==
  /\ []RegistrySorted
  /\ [][(~dryRun /\ ~ucReadFailed) => \A r \in Repos : RegistryKept(r)]_vars

(***************************************************************************)
(* C8: updateContributors is not destructive when the existing registry    *)
(* file cannot be read or parsed: the registry it then writes lacks no     *)
(* identity the file held.                                                 *)
(***************************************************************************)
C8_UnreadableRegistryNotReplaced ==
  [][(aPc = "updateContributors_write" /\ ucReadFailed
        /\ registryFile'[repo] # registryFile[repo])
       => registered(registryFile[repo]) \subseteq registered(registryFile'[repo])]_vars

(***************************************************************************)
(* C10: a dry run of aggregate performs every fetch and every metric       *)
(* computation and creates or modifies no persisted artifact: metrics      *)
(* record, contributor registry, prior-period active set, dated snapshot,  *)
(* maintainer registry, repository index.                                  *)
(***************************************************************************)
FetchesOfARun == 1 + 5 * RepoCount

DryRunComputesAll ==
  (dryRun /\ aPc = "done") => (fetchesDone = FetchesOfARun /\ computesDone = RepoCount)

C10_DryRunWritesNothing ==
  /\ []DryRunComputesAll
  /\ [][dryRun => UNCHANGED diskVars]_vars

\* the same statement, the prior-period active set left out of the artifacts
C10_ButPriorPeriodSet ==
  /\ []DryRunComputesAll
  /\ [][dryRun => UNCHANGED <<registryFile, metricsFile, snapshotFile, maintainersFile,
                              repoIndexFile>>]_vars

(***************************************************************************)
(* C9: in every reachable state of consolidateSnapshots, a crash or a      *)
(* write failure at any step included, each daily snapshot file the run    *)
(* has deleted belongs to a month whose monthly record the run had already *)
(* written completely; when writing a group's monthly record fails, none   *)
(* of that group's daily files is deleted.                                 *)
(***************************************************************************)
DeletedAreConsolidated ==
  \A d \in deleted :
     /\ getMonthKey(d) \in monthlyWritten
     /\ monthlyFile[getMonthKey(d)].state = "complete"

FailedGroupKeepsItsFiles ==
  kPc = "failed" =>
    \A i \in 1..Len(monthlyGroups[gI].files) :
       LET day == monthlyGroups[gI].files[i].key
       IN  day \notin deleted /\ dailyFile[day].exists

C9_WriteBeforeDelete == DeletedAreConsolidated /\ FailedGroupKeepsItsFiles

\* the write of the second group fails, or the process dies, after the first
\* group's files were deleted
C9_Witness_FailureAfterDeletes ==
  /\ kPc \in {"failed", "crashed"}
  /\ deleted # {}
  /\ gI = 2
  /\ monthlyFile[monthlyGroups[gI].monthKey].state = "partial"

(***************************************************************************)
(* C11: a repository's artifacts are written after all of its fetches      *)
(***************************************************************************)
\* the three artifacts aggregateRepository writes for a repository
\* (aggregator.ts:191-193)
RepoArtifacts == {"metrics", "contributors", "snapshot"}

\* the fetch stages of aggregateRepository (aggregator.ts:126-147)
RepoFetchStages == FetchStages \ {"fetchMaintainers"}

\* the stages of aggregateRepository that come before its first write
BeforeWrites == RepoFetchStages \cup {"loadContributors",
                  "loadPreviousPeriodContributors", "savePreviousPeriodContributors"}

\* every write of one of a repository's three artifacts came after the
\* maintainers fetch, the five fetches of every repository up to it, and the
\* metric computation of every repository up to it
WritesFollowFetches ==
  \A w \in written :
     w.artifact \in RepoArtifacts =>
        /\ fetchesDone >= 1 + 5 * w.repo
        /\ computesDone >= w.repo

\* a run that failed in a fetch stage of a repository wrote none of that
\* repository's three artifacts
FailedFetchWroteNothing ==
  failedAt.stage \in RepoFetchStages =>
     \A name \in RepoArtifacts : Artifact(name, failedAt.repo) \notin written

\* a step taken while aggregateRepository is before its writes leaves the three
\* files of the repository as they are
NoWriteBeforeWrites ==
  aPc \in BeforeWrites =>
     /\ metricsFile'[repo] = metricsFile[repo]
     /\ registryFile'[repo] = registryFile[repo]
     /\ snapshotFile'[repo] = snapshotFile[repo]

RepositoryStages == BeforeWrites \cup {"writeMetrics", "updateContributors_read",
                                       "updateContributors_write", "writeSnapshot"}

\* the repositories an artifact of which the run has written
writtenRepos == {w.repo : w \in written} \ {0}

\* while aggregateRepository works on repository r: every earlier repository
\* has all its fetches behind it and, unless the run is dry, its three
\* artifacts written; no later repository has been fetched or written
InConfigurationOrder ==
  aPc \in RepositoryStages =>
     /\ fetchesDone >= 1 + 5 * (repo - 1)
     /\ fetchesDone <= 1 + 5 * repo
     /\ \A j \in 1..(repo - 1) :
           ~dryRun => \A name \in RepoArtifacts : Artifact(name, j) \in written
     /\ \A j \in writtenRepos : j <= repo

\* a failure ends the run: nothing of a later repository was fetched or
\* written, in that run, when it failed or afterwards
FailureEndsRun ==
  failedAt /= NoFailure =>
     /\ aPc = "failed"
     /\ failedAt.stage \in RepositoryStages =>
           /\ fetchesDone <= 1 + 5 * failedAt.repo
           /\ \A j \in writtenRepos : j <= failedAt.repo

\* the step in which the run fails, and every step while it has failed, leaves
\* every file as it is
FailureKeepsFiles == (aPc' = "failed" \/ aPc = "failed") => UNCHANGED diskVars

\* C12: the repositories are processed in the order of the configuration, a
\* repository being started only after all fetches and writes of the one
\* before it; when a repository fails fatally, the artifacts written for
\* earlier repositories stay unchanged and no fetch or write for a later
\* repository takes place.
C12_SequentialRepositories ==
  /\ [](InConfigurationOrder /\ FailureEndsRun)
  /\ [][FailureKeepsFiles]_vars

\* the second repository failed in one of its writes after the first one had
\* been written
C12_Witness_SecondRepositoryWriteFailed ==
  /\ aPc = "failed"
  /\ failedAt.stage \in {"writeMetrics", "updateContributors_write", "writeSnapshot"}
  /\ failedAt.repo = 2
  /\ \A name \in RepoArtifacts : Artifact(name, 1) \in written
  /\ metricsFile[1].exists /\ registryFile[1].exists /\ snapshotFile[1].exists
(***************************************************************************)
(* C13: one snapshot per repository and calendar date                      *)
(***************************************************************************)
\* the files of repository r that say they are of date d
snapshotsOf(r, d) == {f \in snapshotsDir[r] : f.data.date = d}

\* at most one file per date, named after its date
OnePerDate ==
  \A r \in Repos : \A f, g \in snapshotsDir[r] :
     /\ f.name = SnapshotName(f.data.date)
     /\ f.data.date = g.data.date => f = g

\* the file of a date carries the values of the metrics last written on
\* that date, and there is none before the first write
HoldsLatest ==
  \A r \in Repos : \A d \in SnapDates :
     IF latest[r][d] = NoneWritten
       THEN snapshotsOf(r, d) = {}
       ELSE /\ snapshotsOf(r, d) /= {}
            /\ \A f \in snapshotsOf(r, d) :
                  /\ f.data.issues.open = latest[r][d].issues.open_count
                  /\ f.data.repository = latest[r][d].repository
                  /\ f.data.contributors.total = latest[r][d].contributors.total_known
                  /\ f.data.contributors.active_30d =
                        latest[r][d].contributors.active_30d
                  /\ f.data.contributors.first_time_30d =
                        latest[r][d].contributors.first_time_30d

\* a step changes no file but the one of the date and repository of the call
OtherDatesKept ==
  \A r \in Repos :
     /\ \A f \in snapshotsDir[r] :
           (r /= sRepo \/ f.data.date /= sDate) => f \in snapshotsDir'[r]
     /\ \A f \in snapshotsDir'[r] :
           f \in snapshotsDir[r] \/ (r = sRepo /\ f.data.date = sDate)

\* two metrics computed alike: they differ at most in the time of the run
SameComputed(a, b) ==
  /\ a.issues = b.issues
  /\ a.repository = b.repository
  /\ a.contributors = b.contributors

\* writing what was computed alike a second time on the same date leaves the
\* directory as it is
SameMetricsSameContent ==
  (/\ sPc = "writeFile"
   /\ latest[sRepo][sDate] /= NoneWritten
   /\ SameComputed(latest[sRepo][sDate], sMetrics))
     => snapshotsDir' = snapshotsDir

readableOld(m) ==
  {d \in Days :
     /\ \E i \in 1..Len(dirFiles) : dirFiles[i] = DailyName(d)
     /\ d < retentionCutoff
     /\ getMonthKey(d) = m
     /\ d \notin unreadable}

\* the days of the files of a group
daysOf(group) == {group.files[i].key : i \in 1..Len(group.files)}

\* the value of the monthly record where all snapshots of the group agree
CarriesSharedCounts(group, record) ==
  LET n == Len(group.snapshots)
      first == group.snapshots[1]
  IN  /\ (\A k \in 1..n : group.snapshots[k].issues.open = first.issues.open)
           => record.issues.open = first.issues.open
      /\ (\A k \in 1..n :
             group.snapshots[k].issues.closed_30d = first.issues.closed_30d)
           => record.issues.closed_30d = first.issues.closed_30d

\* month m has its one monthly record, made of exactly its readable old days
FoldedIntoOneRecord(m) ==
  /\ monthlyFile[m].state = "complete"
  /\ \E i \in 1..Len(monthlyGroups) :
        LET group == monthlyGroups[i]
        IN  /\ group.monthKey = m
            /\ \A j \in 1..Len(monthlyGroups) : monthlyGroups[j].monthKey = m => j = i
            /\ daysOf(group) = readableOld(m)
            /\ monthlyFile[m].data = consolidateMonthlyData(m, group.snapshots)
            /\ CarriesSharedCounts(group, monthlyFile[m].data)

AllNestedPages(item) ==
  [k \in 1..NestedPages(item.comments.totalCount) |-> k - 1]

\* every collected entity with more than 100 nested entries holds all of them
NestedListsComplete ==
  \A i \in 1..Len(collected) :
     collected[i].comments.totalCount > NESTED_PAGE_SIZE =>
        collected[i].comments.nodes = AllNestedPages(collected[i])

\* C15: every collected issue or pull request whose nested comment or review
\* total exceeds 100 holds, after collection, all of its comments or reviews:
\* the first 100 followed by the remainder in page order.
C15_NestedListsComplete == NestedListsComplete

\* the same for the collection of issues alone
C15_ForIssues == cKind = "issues" => NestedListsComplete
(***************************************************************************)
(* C16: the delays of withRetry                                            *)
(***************************************************************************)
\* the k-th failed attempt (k = 0, 1, ...) that was retried was retriable and
\* was followed by a sleep of baseDelayMs * 2^k
ExponentialDelays ==
  \A k \in 0..(Len(slept) - 1) :
     /\ slept[k + 1] = baseDelayMs * 2^k
     /\ isRetriableError(raised[k + 1]).retriable

\* one sleep between two consecutive invocations: when fn is invoked for the
\* n-th time, and while withRetry sleeps after the n-th invocation, n - 1 and n
\* sleeps have begun
OneDelayBetweenAttempts ==
  /\ wrPc = "call" => Len(slept) = fnCalls
  /\ wrPc = "sleep" => Len(slept) = fnCalls /\ fnCalls = attempt + 1

\* withRetry has settled after at least one invocation: no sleep followed the
\* last invocation, whether it succeeded, failed fatally, or was the final
\* attempt
NoDelayAfterLast ==
  (withRetry_settled /\ fnCalls > 0) => Len(slept) = fnCalls - 1

\* C16: the delay slept after the k-th failed retriable attempt is
\* baseDelayMs * 2^k; exactly one delay separates two consecutive attempts;
\* no delay is slept after the final failed attempt, after a fatal error, or
\* after a success.
C16_ExponentialBackoff ==
  ExponentialDelays /\ OneDelayBetweenAttempts /\ NoDelayAfterLast

\* three retriable failures were retried and the fourth attempt, the final
\* one, failed retriably as well
C16_Witness_ThreeDelays ==
  /\ wrPc = "thrown"
  /\ wrCaller = "direct"
  /\ maxRetries = 3
  /\ fnCalls = 4
  /\ slept = <<baseDelayMs, 2 * baseDelayMs, 4 * baseDelayMs>>
  /\ isRetriableError(raised[4]).retriable
(***************************************************************************)
(* C17: one pacing delay between two page requests, none after the last    *)
(***************************************************************************)
\* a page request of the collection is about to be made, is being made, or is
\* awaited behind the pacing delay: every page received so far was followed by
\* one pacing delay
OneDelayPerPageBefore ==
  cPc \in {"request", "retrying", "pageDelay"} => pageDelays = pagesServed

\* the items of the last page received are being looked at: one pacing delay
\* between every two of the pages received so far
OneDelayBetweenPages ==
  cPc \in {"items", "comments", "commentDelay"} => pageDelays = pagesServed - 1

\* the collection has ended, because the source reported no further page or
\* because the cutoff was reached: no pacing delay followed its last page
NoDelayAfterLastPage == cPc = "done" => pageDelays = pagesServed - 1

\* a pacing delay begins only after the for loop over a page whose pageInfo
\* reports a further page, and is followed by the request of that page
DelayOnlyBeforeNextPage ==
  /\ pageDelays' /= pageDelays =>
        /\ pageDelays' = pageDelays + 1
        /\ cPc = "items" /\ cPc' = "pageDelay" /\ pageInfo
  /\ cPc = "pageDelay" => cPc' \in {"pageDelay", "request"}

\* C17: in issue and pull-request pagination exactly one pacing delay occurs
\* between any two consecutive page requests of a collection, and none after
\* its last page request, whether the collection ended because the source
\* reported no further page or because the cutoff was reached.
C17_PacingBetweenPages ==
  /\ [](OneDelayPerPageBefore /\ OneDelayBetweenPages /\ NoDelayAfterLastPage)
  /\ [][DelayOnlyBeforeNextPage]_vars

\* a collection of two pages, one pacing delay between them, ended by the
\* cutoff in the second page
C17_Witness_TwoPagesThenCutoff ==
  /\ cPc = "done"
  /\ pagesServed = 2
  /\ pageDelays = 1
  /\ stopAtCutoff
  /\ \E i \in 1..Len(nodes) : IsBeforeCutoff(nodes[i])
  /\ Len(collected) >= PageLen
(***************************************************************************)
(* C18: a run without maintainers                                          *)
(***************************************************************************)
\* the maintainer registry could not be fetched, or no entry of it has a role
\* ending in _MAINTAINERS or _SDK
RegistryUnusable(response) ==
  \/ response.kind \in {"rejected", "directory"}
  \/ /\ response.kind = "file"
     /\ \A i \in 1..Len(response.content) :
           \A j \in 1..Len(response.content[i].memberOf) :
              LET role == response.content[i].memberOf[j]
              IN  role[Len(role)] \notin {"_MAINTAINERS", "_SDK"}

\* the numbers of the issues of a list
numbersOf(list) == {list[i].number : i \in 1..Len(list)}

\* every open issue is listed as without maintainer response, once
AllOpenIssuesListed ==
  /\ numbersOf(issueMetrics.issues_without_maintainer_response)
        = numbersOf(issueData.open)
  /\ Len(issueMetrics.issues_without_maintainer_response) = Len(issueData.open)

\* the response-time statistics are 0
ResponseTimesZero ==
  /\ issueMetrics.response_time.avg_hours = 0
  /\ issueMetrics.response_time.median_hours = 0
  /\ issueMetrics.response_time.p90_hours = 0
  /\ issueMetrics.response_time.p95_hours = 0

reopenedAtSource ==
  {i \in 1..Len(issueData.closed) :
     \E k \in 1..Len(issueData.closed[i].timelineItems.nodes) :
        issueData.closed[i].timelineItems.nodes[k].event = "ReopenedEvent"}

\* reopen_rate, in hundredths, is between 0 and 1
ReopenRateInUnitInterval == issueMetrics.reopen_rate \in 0..100

\* reopen_rate is the fraction, to two decimals, of the closed issues whose
\* timeline has a reopen event; 0 without closed issues
ReopenRateIsFraction ==
  issueMetrics.reopen_rate =
    IF Len(issueData.closed) = 0 THEN 0
    ELSE roundDiv(100 * Cardinality(reopenedAtSource), Len(issueData.closed))

\* C19: reopen_rate is within [0, 1] and equals the fraction of closed issues
\* whose timeline contains a reopen event, whatever reopen and close events
\* the timelines hold; it is 0 when no closed issue has a reopen event.
C19_ReopenRate ==
  mPc = "done" => (ReopenRateInUnitInterval /\ ReopenRateIsFraction)

\* the part of it that is about the range alone
C19_RangeOnly == mPc = "done" => ReopenRateInUnitInterval
\* ---- C20 ----
\* the days of month m that some consolidation run has deleted
deletedOf(m) == {d \in everDeleted : getMonthKey(d) = m}

\* the monthly record of m accounts for every deleted day of m
AccountsForDeleted(m) ==
  monthlyFile[m].state = "complete" => deletedOf(m) \subseteq recordDays[m]

\* C20: after any sequence of consolidation runs, the monthly record of a month
\* accounts for every daily snapshot of that month that consolidation has
\* deleted; a later run does not replace the record by one computed only from
\* the newly consolidated days.
C20_RecordAccountsForDeleted == \A m \in Months : AccountsForDeleted(m)

\* within one run, every day the run deletes is one the record it wrote was
\* computed from
C20_WithinOneRun ==
  \A d \in deleted : monthlyFile[getMonthKey(d)].state = "complete" => d \in recordDays[getMonthKey(d)]

\* ---- C21 ----
\* calculateContributorMetrics returns to a run that keeps its result
ContributorMetricsReturned ==
  aPc = "savePreviousPeriodContributors" /\ aPc' = "writeMetrics"

\* the retention base the statement names: the persisted record of the previous
\* run when there is one, the 30-60 day window otherwise
recordedBase ==
  IF prevFile[repo].exists THEN toSet(prevFile[repo].data) ELSE prevWindowContributors

retainedOf(base) == Cardinality(base \cap activeContributors)

rateOf(base) ==
  IF base = {} THEN 0 ELSE roundDiv(retainedOf(base) * 1000, Cardinality(base))

RetentionFromRecord ==
  ContributorMetricsReturned =>
    /\ contributorMetrics'.churned_30d = Cardinality(recordedBase) - retainedOf(recordedBase)
    /\ contributorMetrics'.retention_rate_pct = rateOf(recordedBase)

\* C21: the retention base is the prior-period set persisted by the previous run
\* whenever such a record exists, and the 30-60 day window only when no record
\* exists; churned = |base| - retained and the rate is retained / |base| (0 for an
\* empty base).
C21_RetentionBase == [][RetentionFromRecord]_vars

RetentionArithmetic ==
  ContributorMetricsReturned =>
    /\ retentionBase = (IF previousPeriodContributors # {}
                          THEN previousPeriodContributors ELSE prevWindowContributors)
    /\ retained + contributorMetrics'.churned_30d = Cardinality(retentionBase)
    /\ contributorMetrics'.retention_rate_pct = rateOf(retentionBase)
    /\ contributorMetrics'.retention_rate_pct \in 0..1000
    /\ contributorMetrics'.churned_30d \in 0..Cardinality(retentionBase)

\* with the base the code takes (the record when it is not empty), retained +
\* churned = |base| and the rate lies between 0 and 100 percent
C21_ArithmeticOnly == [][RetentionArithmetic]_vars

\* ---- C22 ----
\* the identities that authored something that was fetched
authors == {a.author : a \in toSet(activities)}

ActiveIn(login, from, to) ==
  \E a \in toSet(activities) : a.author = login /\ age(a) >= from /\ age(a) < to

\* a non-bot author with an activity in the last 30 days and none between 30 and
\* 120 days before now
IsFirstTime(login) ==
  /\ login # NoLogin
  /\ ~isBot(login)
  /\ ActiveIn(login, 0, THIRTY_DAYS)
  /\ ~ActiveIn(login, THIRTY_DAYS, ONE_TWENTY_DAYS)

FirstTimeCounted ==
  ContributorMetricsReturned =>
    /\ contributorMetrics'.first_time_30d = Cardinality({l \in authors : IsFirstTime(l)})
    /\ contributorMetrics'.first_time_30d <= contributorMetrics'.active_30d
    /\ \A l \in authors :
         ActiveIn(l, 0, THIRTY_DAYS) /\ ActiveIn(l, THIRTY_DAYS, ONE_TWENTY_DAYS)
           => l \notin newContributors

HasQualifyingComment(issue) ==
  \E k \in 1..Len(issue.comments.nodes) :
     LET c == issue.comments.nodes[k]
     IN  /\ c.author \in maintainerSet
         /\ c.author # issue.author
         /\ c.author # NoLogin
         /\ ~isBot(c.author)

\* the open issues without qualifying comment, as positions of issueData.open
waiting == {k \in 1..Len(issueData.open) : ~HasQualifyingComment(issueData.open[k])}

hoursOld(issue) == nowHours - issue.createdAt

withoutResponse == issueMetrics.issues_without_maintainer_response

ListedOnce ==
  /\ Len(withoutResponse) = Cardinality(waiting)
  /\ \A k \in waiting :
        \E n \in 1..Len(withoutResponse) :
           /\ withoutResponse[n] =
                [number |-> issueData.open[k].number,
                 daysWaiting |-> hoursOld(issueData.open[k]) \div 24]
           /\ \A o \in 1..Len(withoutResponse) :
                 withoutResponse[o].number = issueData.open[k].number => o = n

olderThan(hours) == Cardinality({k \in waiting : hoursOld(issueData.open[k]) > hours})

Bucketed ==
  /\ issueMetrics.without_response_24h = olderThan(24)
  /\ issueMetrics.without_response_7d = olderThan(7 * 24)
  /\ issueMetrics.without_response_30d = olderThan(30 * 24)
  /\ issueMetrics.without_response_30d <= issueMetrics.without_response_7d
  /\ issueMetrics.without_response_7d <= issueMetrics.without_response_24h
  /\ issueMetrics.without_response_24h <= Len(withoutResponse)

OldestFirst ==
  \A n \in 1..(Len(withoutResponse) - 1) :
     withoutResponse[n].daysWaiting >= withoutResponse[n + 1].daysWaiting

\* C23: every open issue with no qualifying maintainer comment is listed exactly
\* once with daysWaiting the whole days since its creation, is counted in
\* without_response_24h, _7d, _30d exactly when it is older than 24 hours, 7 days,
\* 30 days, and the list is ordered by non-increasing daysWaiting.
C23_WithoutResponse == mPc = "done" => (ListedOnce /\ Bucketed /\ OldestFirst)

\* with 'Al' a maintainer: an issue of 10 hours and one of 31 days, given youngest
\* first, are listed oldest first; only the older is in the three buckets
C23_Witness_SortedAndBucketed ==
  /\ mPc = "done"
  /\ maintainerSet = {LoginAl}
  /\ Len(issueData.open) = 2
  /\ issueData.open[1].number = 3
  /\ issueData.open[2].number = 7
  /\ withoutResponse = <<[number |-> 7, daysWaiting |-> 31], [number |-> 3, daysWaiting |-> 0]>>
  /\ issueMetrics.without_response_30d = 1
  /\ issueMetrics.without_response_24h = 1

\* with 'Al' a maintainer, the issue 'Al' commented on is not listed and the one
\* of 8 days that 'Al' opened is in the 24 hour and 7 day buckets only
C23_Witness_AnsweredNotListed ==
  /\ mPc = "done"
  /\ maintainerSet = {LoginAl}
  /\ numbersOf(issueData.open) = {1, 2}
  /\ withoutResponse = <<[number |-> 2, daysWaiting |-> 8]>>
  /\ issueMetrics.without_response_7d = 1
  /\ issueMetrics.without_response_30d = 0

\* ---- C24 ----
\* the issues of list whose timestamp is not before now - days
notBefore(list, at(_), days) ==
  Cardinality({k \in 1..Len(list) :
                 ~at(list[k]).isNull /\ nowHours - days * 24 <= at(list[k]).value})

createdOf(issue) == [isNull |-> FALSE, value |-> issue.createdAt]

closedOf(issue) == issue.closedAt

WindowsAreNested ==
  /\ issueMetrics.closed_7d <= issueMetrics.closed_30d
  /\ issueMetrics.closed_30d <= issueMetrics.closed_90d
  /\ issueMetrics.opened_7d <= issueMetrics.opened_30d
  /\ issueMetrics.opened_30d <= issueMetrics.opened_90d

\* C24: an item is counted in opened_Nd / closed_Nd (N = 7, 30, 90) exactly when
\* now - N days <= its createdAt / closedAt, an item exactly N days old included;
\* hence closed_7d <= closed_30d <= closed_90d and the same for opened.
C24_TrailingWindows ==
  mPc = "done" =>
    /\ issueMetrics.closed_7d = notBefore(issueData.closed, closedOf, 7)
    /\ issueMetrics.closed_30d = notBefore(issueData.closed, closedOf, 30)
    /\ issueMetrics.closed_90d = notBefore(issueData.closed, closedOf, 90)
    /\ issueMetrics.opened_7d = notBefore(issueData.open \o issueData.closed, createdOf, 7)
    /\ issueMetrics.opened_30d = notBefore(issueData.open \o issueData.closed, createdOf, 30)
    /\ issueMetrics.opened_90d = notBefore(issueData.open \o issueData.closed, createdOf, 90)
    /\ WindowsAreNested

\* the issues of list whose timestamp is after now - days
after(list, at(_), days) ==
  Cardinality({k \in 1..Len(list) :
                 ~at(list[k]).isNull /\ nowHours - days * 24 < at(list[k]).value})

\* with the boundary excluded the counts are the ones returned, and nested
C24_ExclusiveBoundary ==
  mPc = "done" =>
    /\ issueMetrics.closed_7d = after(issueData.closed, closedOf, 7)
    /\ issueMetrics.closed_30d = after(issueData.closed, closedOf, 30)
    /\ issueMetrics.closed_90d = after(issueData.closed, closedOf, 90)
    /\ issueMetrics.opened_7d = after(issueData.open \o issueData.closed, createdOf, 7)
    /\ issueMetrics.opened_30d = after(issueData.open \o issueData.closed, createdOf, 30)
    /\ issueMetrics.opened_90d = after(issueData.open \o issueData.closed, createdOf, 90)
    /\ WindowsAreNested

\* ---- C25 ----
\* the values a field takes in the daily snapshots a record was computed from
valuesOf(m, field(_)) == {field(SnapshotOf(d)) : d \in recordDays[m]}

maximumOf(S) == CHOOSE x \in S : \A y \in S : y <= x

minimumOf(S) == CHOOSE x \in S : \A y \in S : x <= y

\* the rounded average of a field over the days of the record; the days are
\* distinct, and so are the pairs <<day, value>> that are summed
averageOf(m, field(_)) ==
  LET n == Cardinality(recordDays[m])
      days == recordDays[m]
      RECURSIVE add(_)
      add(D) == IF D = {} THEN 0
                ELSE LET d == CHOOSE x \in D : TRUE
                     IN  field(SnapshotOf(d)) + add(D \ {d})
  IN  (2 * add(days) + n) \div (2 * n)

Within(m, value, field(_)) ==
  /\ minimumOf(valuesOf(m, field)) <= value
  /\ value <= maximumOf(valuesOf(m, field))

starsOf(s) == s.repository.stars
forksOf(s) == s.repository.forks
totalOf(s) == s.contributors.total
activeOf(s) == s.contributors.active_30d
firstTimeOf(s) == s.contributors.first_time_30d
openOf(s) == s.issues.open
closed30Of(s) == s.issues.closed_30d

Recorded(m) == monthlyFile[m].state = "complete" /\ recordDays[m] # {}

CumulativeAreMaxima(m) ==
  /\ monthlyFile[m].data.repository.stars = maximumOf(valuesOf(m, starsOf))
  /\ monthlyFile[m].data.repository.forks = maximumOf(valuesOf(m, forksOf))
  /\ monthlyFile[m].data.contributors.total = maximumOf(valuesOf(m, totalOf))

CountsAreAverages(m) ==
  /\ monthlyFile[m].data.issues.open = averageOf(m, openOf)
  /\ monthlyFile[m].data.issues.closed_30d = averageOf(m, closed30Of)
  /\ monthlyFile[m].data.contributors.active_30d = averageOf(m, activeOf)

AllWithinGroup(m) ==
  /\ Within(m, monthlyFile[m].data.repository.stars, starsOf)
  /\ Within(m, monthlyFile[m].data.repository.forks, forksOf)
  /\ Within(m, monthlyFile[m].data.contributors.total, totalOf)
  /\ Within(m, monthlyFile[m].data.issues.open, openOf)
  /\ Within(m, monthlyFile[m].data.issues.closed_30d, closed30Of)
  /\ Within(m, monthlyFile[m].data.contributors.active_30d, activeOf)
  /\ Within(m, monthlyFile[m].data.contributors.first_time_30d, firstTimeOf)

\* C25: in a monthly record stars, forks and total known contributors are the
\* maximum over the group's daily snapshots and every other count-like field, the
\* contributors' active and first-time counts included, is the rounded average
\* over the group; each monthly value lies between the group's minimum and
\* maximum of that field.
C25_MonthlyFields ==
  \A m \in Months :
     Recorded(m) =>
       /\ CumulativeAreMaxima(m)
       /\ CountsAreAverages(m)
       /\ monthlyFile[m].data.contributors.first_time_30d = averageOf(m, firstTimeOf)
       /\ AllWithinGroup(m)

\* all of it but the first-time count, which is within the group's range
C25_ButFirstTime ==
  \A m \in Months :
     Recorded(m) => (CumulativeAreMaxima(m) /\ CountsAreAverages(m) /\ AllWithinGroup(m))

\* ---- C26 ----
\* the pull requests, as positions of data, whose file list contains path
touching(data, path) ==
  {k \in 1..Len(data) : \E j \in 1..Len(data[k].files) : data[k].files[j].filename = path}

\* the changed-line count of the first listing of path in a file list
changesIn(files, path) ==
  files[CHOOSE j \in 1..Len(files) :
          /\ files[j].filename = path
          /\ \A o \in 1..(j - 1) : files[o].filename # path].changes

RECURSIVE changesOver(_, _, _)
changesOver(data, path, prs) ==
  IF prs = {} THEN 0
  ELSE LET k == CHOOSE x \in prs : TRUE
       IN  changesIn(data[k].files, path) + changesOver(data, path, prs \ {k})

\* the paths listed by some pull request of data
pathsOf(data) ==
  UNION {{data[k].files[j].filename : j \in 1..Len(data[k].files)} : k \in 1..Len(data)}

HotspotsReturned == called = "calculateHotspots"

OneEntryPerFile ==
  /\ {returned.by_file[n].path : n \in 1..Len(returned.by_file)} = pathsOf(args.data)
  /\ Len(returned.by_file) = Cardinality(pathsOf(args.data))

CountsPullRequests ==
  \A n \in 1..Len(returned.by_file) :
     LET e == returned.by_file[n]
     IN  /\ e.pr_count = Cardinality(touching(args.data, e.path))
         /\ e.total_changes = changesOver(args.data, e.path, touching(args.data, e.path))

\* C26: for every file, pr_count is the number of distinct pull requests whose
\* file list contains it and total_changes sums one changed-line count for each
\* of them; a file listed twice by one pull request is counted once and a pull
\* request with an empty file list contributes nothing.
C26_HotspotsByFile == HotspotsReturned => (OneEntryPerFile /\ CountsPullRequests)

\* three pull requests: one lists src/a.ts twice, one lists it once, one does not
\* list it
C26_Witness_TwoOfThree ==
  /\ HotspotsReturned
  /\ Len(args.data) = 3
  /\ args.data[1].files = <<GitHubPRFile(FileA, 3), GitHubPRFile(FileA, 10)>>
  /\ args.data[2].files = <<GitHubPRFile(FileA, 5), GitHubPRFile(FileB, 1)>>
  /\ args.data[3].files = <<GitHubPRFile(FileB, 2), GitHubPRFile(FileC, 4)>>
  /\ \E n \in 1..Len(returned.by_file) :
        returned.by_file[n] = [path |-> FileA, pr_count |-> 2, total_changes |-> 8]

\* ---- C27 ----
\* a calculator was called with nothing in the sets it is given
IssuesCalledEmpty ==
  called = "calculateIssueMetrics" /\ args.data.open = <<>> /\ args.data.closed = <<>>

PullsCalledEmpty ==
  called = "calculatePRMetrics" /\ args.data.open = <<>> /\ args.data.closed = <<>>

HotspotsCalledEmpty ==
  called = "calculateHotspots" /\ args.data = <<>>

ContributorsCalledEmpty ==
  /\ called = "calculateContributorMetrics"
  /\ args.issues = <<>> /\ args.pulls = <<>> /\ args.commits = <<>>

\* the issue calculator's answer with every count, statistic and rate 0 and
\* every list empty
ZeroIssueMetrics ==
  [open_count |-> 0, closed_7d |-> 0, closed_30d |-> 0, closed_90d |-> 0,
   opened_7d |-> 0, opened_30d |-> 0, opened_90d |-> 0,
   without_response_24h |-> 0, without_response_7d |-> 0, without_response_30d |-> 0,
   issues_without_maintainer_response |-> <<>>,
   response_time |-> [avg_hours |-> 0, median_hours |-> 0, p90_hours |-> 0,
                      p95_hours |-> 0],
   by_label |-> <<>>,
   close_time |-> [avg_days |-> 0, median_days |-> 0, p90_days |-> 0],
   label_coverage_pct |-> 0, unlabeled_count |-> 0,
   stale_30d |-> 0, stale_60d |-> 0, stale_90d |-> 0, reopen_rate |-> 0]

\* the same of the pull request calculator
ZeroPRMetrics ==
  [open_count |-> 0, merged_7d |-> 0, merged_30d |-> 0, merged_90d |-> 0,
   opened_7d |-> 0, opened_30d |-> 0, opened_90d |-> 0,
   closed_not_merged_90d |-> 0, draft_count |-> 0,
   without_review_24h |-> 0, without_review_7d |-> 0,
   prs_without_maintainer_review |-> <<>>,
   review_time |-> [avg_hours |-> 0, median_hours |-> 0, p90_hours |-> 0,
                    p95_hours |-> 0],
   merge_time |-> [avg_hours |-> 0, median_hours |-> 0],
   code_review_rate_pct |-> 0, rejection_rate_pct |-> 0, avg_reviews_per_pr |-> 0,
   by_size |-> [small |-> 0, medium |-> 0, large |-> 0]]

\* the three calculators that read nothing but their arguments answer zeros
\* and empty lists
PureCalculatorsZero ==
  /\ IssuesCalledEmpty => returned = ZeroIssueMetrics
  /\ PullsCalledEmpty => returned = ZeroPRMetrics
  /\ HotspotsCalledEmpty => returned.by_file = <<>> /\ returned.by_directory = <<>>

\* what the contributor calculator derives from its arguments is 0 or empty
DerivedFromInputsZero ==
  /\ returned.active_30d = 0
  /\ returned.first_time_30d = 0
  /\ returned.retention_rate_pct = 0
  /\ returned.commits_per_week_avg = 0
  /\ returned.active_maintainers_30d = 0
  /\ returned.active_community_30d = 0
  /\ returned.previousPeriodContributors = <<>>

\* the contributors of the registry on disk that are not bots
knownOnDisk ==
  IF registryFile[repo].exists
    THEN {c \in toSet(registryFile[repo].data.contributors) : ~isBot(c)} ELSE {}

\* what the contributor calculator answers from what earlier runs persisted
FromPersistedState ==
  /\ returned.total_known = Cardinality(knownOnDisk)
  /\ returned.allContributors = sort(knownOnDisk)
  /\ returned.churned_30d = Cardinality(previousPeriodContributors)
  /\ returned.commits_per_week_trend = [w \in 1..WEEKS |-> 0]

MonotoneInP ==
  \A q \in args.p..100 : returned <= percentile100(args.sortedValues, q)

\* percentile returned a value between the least and the greatest of the list
WithinTheList ==
  Len(args.sortedValues) > 0 =>
    /\ 100 * args.sortedValues[1] <= returned
    /\ returned <= 100 * args.sortedValues[Len(args.sortedValues)]

\* C28: for every sorted list and 0 <= p <= q <= 100, percentile(list, p) <=
\* percentile(list, q) and the result lies between the minimum and the maximum
\* of the list; percentile of the empty list is 0 and percentile of a list of
\* one element is that element, for every p
C28_Percentile ==
  called = "percentile" =>
    /\ MonotoneInP
    /\ WithinTheList
    /\ Len(args.sortedValues) = 0 => returned = 0
    /\ Len(args.sortedValues) = 1 => returned = 100 * args.sortedValues[1]

\* percentile interpolated half way between two different values of the list
C28_Witness_Interpolated ==
  /\ called = "percentile"
  /\ args.sortedValues = <<0, 1, 3>>
  /\ args.p = 75
  /\ returned = 200

\* ---- C29 ----
\* the days whose files are in a group of the run
grouped ==
  UNION {{monthlyGroups[g].files[i].key : i \in 1..Len(monthlyGroups[g].files)} :
           g \in 1..Len(monthlyGroups)}

\* the old daily snapshots the run found in the directory
listedOld ==
  {dirFiles[i].key : i \in {j \in 1..Len(dirFiles) :
                              dirFiles[j].kind = "daily" /\ dirFiles[j].key < retentionCutoff}}

\* a file the run could not read is in place, in no group, in no record the
\* run wrote, and the run has not deleted it
UnreadableLeftInPlace ==
  \A d \in unreadable :
     /\ dailyFile[d].exists
     /\ d \notin deleted
     /\ d \notin grouped
     /\ getMonthKey(d) \in monthlyWritten => d \notin recordDays[getMonthKey(d)]

\* a run that returns has folded every old file it listed and could read
OthersConsolidated ==
  kPc = "done" =>
    \A d \in listedOld \ unreadable :
       /\ getMonthKey(d) \in monthlyWritten
       /\ d \in recordDays[getMonthKey(d)]

\* no step removes a daily snapshot within the retention period or a monthly file
RecentAndMonthlyKept ==
  /\ \A d \in Days : d >= retentionCutoff /\ dailyFile[d].exists => dailyFile'[d].exists
  /\ \A m \in Months : monthlyFile[m].state # "absent" => monthlyFile'[m].state # "absent"

LeftInPlace ==
  /\ UnreadableLeftInPlace'
  /\ OthersConsolidated'
  /\ RecentAndMonthlyKept

\* C29: a daily snapshot that cannot be read or parsed during consolidation is
\* left in place, is in no monthly record and is never deleted, and the other
\* files are consolidated all the same; daily snapshots within the last 90 days
\* and existing monthly files are never deleted by consolidation
C29_LeftInPlace == [][LeftInPlace]_vars

\* a run has returned that could read one of the two old snapshots of a month:
\* the other is folded and deleted, the unreadable one is still there
C29_Witness_OneOfTwoUnreadable ==
  /\ kPc = "done"
  /\ \E u \in unreadable, d \in deleted :
        /\ getMonthKey(u) = getMonthKey(d)
        /\ dailyFile[u].exists
        /\ recordDays[getMonthKey(d)] = {d}

\* a run has returned with a snapshot of the cutoff day and a monthly file of
\* an earlier run in the directory
C29_Witness_RecentAndMonthly ==
  /\ kPc = "done"
  /\ dailyFile[retentionCutoff].exists
  /\ \E i \in 1..Len(dirFiles) : dirFiles[i] = DailyName(retentionCutoff)
  /\ \E i \in 1..Len(dirFiles) : dirFiles[i].kind = "monthly"

\* ---- C30 ----
\* the global files of a run
GlobalArtifacts == {Artifact("maintainers", 0), Artifact("repos", 0)}

\* aggregateRepository has returned for repository r in this run: its last
\* write, the snapshot, is done
processedInRun(r) == Artifact("snapshot", r) \in written

\* a step that writes or modifies a global file is taken when every
\* repository is through and none has failed; once a repository has failed,
\* the run has written no global file and no step of it modifies one
GlobalsLast ==
  /\ \/ (written' \cap GlobalArtifacts) \ written # {}
     \/ maintainersFile' # maintainersFile
     \/ repoIndexFile' # repoIndexFile
     => /\ \A r \in Repos : processedInRun(r)
        /\ failedAt = NoFailure
  /\ failedAt.repo \in Repos =>
       /\ written \cap GlobalArtifacts = {}
       /\ maintainersFile' = maintainersFile
       /\ repoIndexFile' = repoIndexFile

\* C30: the global maintainer registry and the repository index are written
\* only after every configured repository has been processed successfully; if
\* any repository fails, neither global file is written or modified in that run
C30_GlobalsLast == [][GlobalsLast]_vars

\* the first run wrote the global files; the second failed in its second
\* repository, after the snapshot of the first, and the global files are those
\* of the first run
C30_Witness_SecondRunFails ==
  /\ runs = 2
  /\ aPc = "failed"
  /\ failedAt.repo = 2
  /\ processedInRun(1)
  /\ written \cap GlobalArtifacts = {}
  /\ maintainersFile.exists
  /\ repoIndexFile.exists /\ repoIndexFile.data.lastUpdated = 1

====
